---------------------------- MODULE Spec2Model ----------------------------
(***************************************************************************)
(* A model of the hypermedia REST client of src/utils/api.py: the API     *)
(* verbs, the lazily loaded Collection and Entity objects, the            *)
(* ActionContainer and the Action invocation.  Every action of the model  *)
(* is one public operation of the client, run to completion; the HTTP     *)
(* responses it receives are inputs chosen by the server.                 *)
(***************************************************************************)
EXTENDS Integers, Sequences, FiniteSets, TLC

(***************************************************************************)
(* Bounds of the model.                                                    *)
(***************************************************************************)
MaxId == 2      \* entity ids known to the server: 1..MaxId
MaxRes == 2     \* resource fragments in one collection listing
MaxArgs == 2    \* positional arguments of one Action invocation

(***************************************************************************)
(* Versions.  A version is its dotted numeric components and a            *)
(* non-numeric suffix ("" when there is none).                            *)
(***************************************************************************)
V(nums, suffix) == [nums |-> nums, suffix |-> suffix]

Versions ==
  { V(<<1, 0>>, ""), V(<<1, 1>>, ""), V(<<1, 2>>, ""),
    V(<<2, 0, 0>>, "-pre"), V(<<2, 0, 0>>, "") }

V_2_0_0_pre == V(<<2, 0, 0>>, "-pre")
V_2_0_0 == V(<<2, 0, 0>>, "")
V_1_1 == V(<<1, 1>>, "")

Min(a, b) == IF a < b THEN a ELSE b

\* Lexicographic order of the numeric components; 0 when neither is less
\* on the common prefix.
RECURSIVE NumsCmp(_, _, _)
NumsCmp(a, b, i) ==
  IF i > Min(Len(a), Len(b)) THEN 0
  ELSE IF a[i] < b[i] THEN -1
  ELSE IF a[i] > b[i] THEN 1
  ELSE NumsCmp(a, b, i + 1)

\* a >= b in the loose ordering: numbers compare numerically, a suffix
\* component is greater than any number, a list is greater than its prefix.
VersionGE(a, b) ==
  LET c == NumsCmp(a.nums, b.nums, 1) IN
  IF c # 0 THEN c > 0
  ELSE IF Len(a.nums) = Len(b.nums)
       THEN (b.suffix = "") \/ (a.suffix = b.suffix)
       ELSE IF Len(a.nums) < Len(b.nums)
            THEN a.suffix # ""
            ELSE b.suffix = ""

VersionEQ(a, b) == a.nums = b.nums /\ a.suffix = b.suffix

\* the version's leading components are those of the series
IsInSeries(v, series) ==
  /\ series.suffix = ""
  /\ Len(series.nums) <= Len(v.nums)
  /\ SubSeq(v.nums, 1, Len(series.nums)) = series.nums

(***************************************************************************)
(* Addresses.  An href is the sequence of its path segments, and          *)
(* "{}/{}".format(href, x) appends the segments of x.  A bare id is a      *)
(* one-segment sequence.                                                   *)
(***************************************************************************)
EntryPoint == <<"api">>
CollName == "vms"
IdNames == <<"1", "2", "3", "4">>
Ids == { <<IdNames[i]>> : i \in 1..MaxId }

Join(href, x) == href \o x
CollHref(name) == Join(EntryPoint, <<name>>)
EntityHref(name, id) == Join(CollHref(name), id)

(***************************************************************************)
(* JSON values and HTTP response bodies.                                   *)
(***************************************************************************)
JDict(d) == [t |-> "dict", d |-> d]
JList(s) == [t |-> "list", d |-> s]
JNull == [t |-> "null", d |-> <<>>]

JsonBody(b) == [kind |-> "json", text |-> <<>>, body |-> b]
TextBody(t) == [kind |-> "text", text |-> t, body |-> JNull]

\* bodies that are not JSON: empty, whitespace only, and non-empty text
Texts == { <<>>, <<" ">>, <<" ", "\n">>, <<"<", "h", ">">>, <<" ", "x", " ">> }
Whitespace == {" ", "\n", "\t", "\r"}

Klasses == {"Foo", "ActiveRecord::RecordNotFound"}
Messages == {"bar"}
ErrorEnvelope(k, m) ==
  JDict("error" :> [klass |-> k, message |-> m])
ErrorBodies == { JsonBody(ErrorEnvelope(k, m)) : k \in Klasses, m \in Messages }
TextBodies == { TextBody(t) : t \in Texts }

(***************************************************************************)
(* Results of a call: a returned value or a raised exception.             *)
(***************************************************************************)
Ok(v) == [st |-> "ok", val |-> v, msg |-> <<>>]
Raise(exc, m) == [st |-> exc, val |-> JNull, msg |-> m]

\* str.strip(): drop leading and trailing whitespace
RECURSIVE LStrip(_)
LStrip(s) ==
  IF s = <<>> THEN s
  ELSE IF Head(s) \in Whitespace THEN LStrip(Tail(s)) ELSE s

RECURSIVE RStrip(_)
RStrip(s) ==
  IF s = <<>> THEN s
  ELSE IF s[Len(s)] \in Whitespace THEN RStrip(SubSeq(s, 1, Len(s) - 1)) ELSE s

Strip(s) == RStrip(LStrip(s))

\* API._result_processor
ResultProcessorNoCheck(result) == Ok(result)
ResultProcessor(result) ==
  IF result.t # "dict" THEN Ok(result)
  ELSE IF "error" \in DOMAIN result.d
       THEN Raise("APIException",
                  <<result.d["error"].klass, result.d["error"].message>>)
       ELSE Ok(result)

\* API.get applied to the response of requests.get
ApiGet(resp) ==
  IF resp.kind # "json"
  THEN Raise("APIException", <<"JSONDecodeError", resp.text>>)
  ELSE ResultProcessor(resp.body)

\* API.post applied to the response of requests.post
ApiPostStrict(resp) == ApiGet(resp)
ApiPost(resp) ==
  IF resp.kind # "json"
  THEN IF Len(Strip(resp.text)) = 0
       THEN Ok(JNull)
       ELSE Raise("APIException", <<"JSONDecodeError", resp.text>>)
  ELSE ResultProcessor(resp.body)

\* API.delete applied to the response of requests.delete
ApiDelete(resp) ==
  IF resp.kind # "json"
  THEN IF Len(Strip(resp.text)) = 0
       THEN Ok(JNull)
       ELSE Raise("APIException", <<"JSONDecodeError", resp.text>>)
  ELSE ResultProcessor(resp.body)

(***************************************************************************)
(* The client's view of the version (API.version, API.new_id_behaviour).   *)
(***************************************************************************)
VARIABLES
  focus,     \* the part of the client the session drives
  version,   \* API._version, read from the root document
  coll,      \* the Collection object held by the caller
  ent,       \* the Entity object held by the caller
  hasEnt,    \* whether the caller holds an Entity
  sr,        \* the entities of the SearchResult held by the caller
  hasSr,     \* whether the caller holds a SearchResult
  log,       \* the HTTP requests issued by the last operation, in order
  ret,       \* the outcome of the last operation
  db,        \* the appliance seen by ApplianceDB.restore_database
  lvm        \* the appliance's disks and the last call that partitions them

vars == <<focus, version, coll, ent, hasEnt, sr, hasSr, log, ret, db, lvm>>

\* API.new_id_behaviour
new_id_behaviour == VersionGE(version, V_2_0_0)

\* the key of the identity field read by Entity.reload
IdentityKeyAlwaysId == "id"
IdentityKey == IF ~new_id_behaviour THEN "id" ELSE "href"

(***************************************************************************)
(* Documents served for an entity.  Up to 2.0.0 the `id` of a document is *)
(* its address; from 2.0.0 on `id` is the bare id and `href` the address. *)
(***************************************************************************)
Action(name, method, href) == [name |-> name, method |-> method, href |-> href]

ServerSplitsIdAndHref == VersionGE(version, V_2_0_0)

IdentityPart(url) ==
  IF ServerSplitsIdAndHref
  THEN ("id" :> <<url[Len(url)]>>) @@ ("href" :> url)
  ELSE ("id" :> url)

\* the actions declared for the entity at url
EntityActions(url) ==
  << Action("edit", "post", url), Action("delete", "delete", url) >>

\* the two revisions of the document of the entity at url: one with a name
\* and a timestamp, one with a foreign key and the declared actions
EntityDocs(url) ==
  { IdentityPart(url) @@ ("name" :> "a") @@ ("created_on" :> "2015-01-01"),
    IdentityPart(url) @@ ("zone_id" :> <<url[Len(url)]>>) @@
      ("actions" :> EntityActions(url)) }

\* the failures a typed endpoint answers with: an error envelope or a
\* body that is not JSON
FailBodies ==
  { JsonBody(ErrorEnvelope("ActiveRecord::RecordNotFound", "bar")),
    TextBody(<<"<", "h", ">">>) }

\* the addresses the server serves entity documents at
IsEntityUrl(url) == Len(url) = 3 /\ url[3] \in { i[1] : i \in Ids }

\* what the server may answer to a GET of url sent by Entity.reload
EntityResponses(url) ==
  IF IsEntityUrl(url)
  THEN { JsonBody(JDict(d)) : d \in EntityDocs(url) } \cup FailBodies
  ELSE FailBodies

(***************************************************************************)
(* Entity                                                                  *)
(***************************************************************************)
TIME_FIELDS ==
  { "updated_on", "created_on", "last_scan_attempt_on", "state_changed_on",
    "lastlogon", "updated_at", "created_at" }

COLLECTION_MAPPING ==
  [ ems_id |-> "providers", storage_id |-> "data_stores", zone_id |-> "zones",
    host_id |-> "hosts", current_group_id |-> "groups",
    miq_user_role_id |-> "roles" ]

\* re.sub(r"_id$", "", key) on the keys of COLLECTION_MAPPING
StripIdSuffix ==
  [ ems_id |-> "ems", storage_id |-> "storage", zone_id |-> "zone",
    host_id |-> "host", current_group_id |-> "current_group",
    miq_user_role_id |-> "miq_user_role" ]

\* iso8601.parse_date
ParseDate(value) == [parsed |-> value]

\* an Entity that holds only an href (Entity._load_data, second branch)
StubEntity(collname, href) ==
  [ coll |-> collname, href |-> href, loaded |-> FALSE, data |-> <<>>,
    hasActions |-> FALSE, actions |-> <<>>, attrs |-> <<>>, ac |-> <<>> ]

NoEntity == StubEntity("", <<>>)

\* API.get_entity with a collection name
GetEntityWrongHref(collname, entity_id) ==
  StubEntity(collname, Join(EntryPoint, entity_id))
GetEntity(collname, entity_id) ==
  StubEntity(collname, Join(CollHref(collname), entity_id))

\* API.get_entity with a Collection object, as Collection.__call__ calls it
GetEntityOf(c, entity_id) == StubEntity(c.name, Join(c.href, entity_id))

\* dict without a key (dict.pop)
Without(d, key) == [k \in (DOMAIN d) \ {key} |-> d[k]]

\* the attributes set by the loop of Entity.reload for the fields of data
ReloadAttrsNoStub(data) ==
  [k \in DOMAIN data |-> IF k \in TIME_FIELDS THEN ParseDate(data[k]) ELSE data[k]]
ReloadAttrs(data) ==
  LET fks == (DOMAIN data) \cap (DOMAIN COLLECTION_MAPPING)
      plain == [k \in DOMAIN data |->
                  IF k \in TIME_FIELDS THEN ParseDate(data[k]) ELSE data[k]]
      refs == [a \in { StripIdSuffix[k] : k \in fks } |->
                 LET k == CHOOSE k \in fks : StripIdSuffix[k] = a
                 IN GetEntity(COLLECTION_MAPPING[k], data[k])]
  IN plain @@ refs

\* Entity.reload from the assignment of _href on: e._data holds `data`
ReloadFromData(e, data) ==
  LET e1 == [e EXCEPT !.loaded = TRUE, !.data = data] IN
  IF IdentityKey \notin DOMAIN data
  THEN [res |-> Raise("KeyError", <<IdentityKey>>), ent |-> e1]
  ELSE LET rest == IF "actions" \in DOMAIN data THEN Without(data, "actions") ELSE data
           acts == IF "actions" \in DOMAIN data THEN data["actions"] ELSE <<>>
       IN [res |-> Ok(JNull),
           ent |-> [e1 EXCEPT !.href = data[IdentityKey],
                              !.data = rest,
                              !.hasActions = TRUE,
                              !.actions = acts,
                              !.attrs = ReloadAttrs(rest) @@ e.attrs]]

\* Entity.reload(get=True) when the GET of e.href is answered by resp
EntityReload(e, resp) ==
  LET r == ApiGet(resp) IN
  IF r.st # "ok" THEN [res |-> r, ent |-> e]
  ELSE IF r.val.t # "dict"
       THEN [res |-> Raise("TypeError", <<>>),
             ent |-> [e EXCEPT !.loaded = (r.val.t # "null"), !.data = <<>>]]
       ELSE ReloadFromData(e, r.val.d)

\* Entity(collection, data): __init__ and _load_data
NewEntityNoCheck(collname, data) ==
  IF "id" \in DOMAIN data
  THEN ReloadFromData(StubEntity(collname, <<>>), data)
  ELSE [res |-> Ok(JNull),
        ent |-> StubEntity(collname, IF "href" \in DOMAIN data THEN data["href"] ELSE <<>>)]
NewEntity(collname, data) ==
  IF "id" \in DOMAIN data
  THEN ReloadFromData(StubEntity(collname, <<>>), data)
  ELSE IF "href" \in DOMAIN data
       THEN [res |-> Ok(JNull), ent |-> StubEntity(collname, data["href"])]
       ELSE [res |-> Raise("ValueError", <<"Malformed data">>), ent |-> NoEntity]

\* Entity._ref_repr
RefRepr(e) == ("href" :> e.href)

(***************************************************************************)
(* Collection                                                              *)
(***************************************************************************)
\* Collection.__init__
NewCollection(name, href) ==
  [ name |-> name, href |-> href, loaded |-> FALSE, dataName |-> "",
    resources |-> <<>>, count |-> 0, subcount |-> 0,
    hasActions |-> FALSE, actions |-> <<>>, ac |-> <<>> ]

(***************************************************************************)
(* The outcome of an operation as the caller sees it.                      *)
(***************************************************************************)
Ret(op, arg, res, ents) ==
  [ op |-> op, arg |-> arg, st |-> res.st, msg |-> res.msg, val |-> res.val,
    ents |-> ents ]

Sent(verb, url, data, resp) ==
  [ verb |-> verb, url |-> url, data |-> data, resp |-> resp ]

(***************************************************************************)
(* The appliance as ApplianceDB.restore_database sees it: the statement    *)
(* the call is at, its arguments, the EVM service, the cached rest_api    *)
(* attribute, and the steps the call has begun so far.                     *)
(***************************************************************************)
DbPaths == {"/tmp/evm_db.backup", "/tmp/v1.backup"}

EvmStates == {"running", "stopped"}

\* the appliance before restore_database is called
NewAppliance(evm, rest_api) ==
  [ pc |-> "idle", db_path |-> "", is_major |-> FALSE, evm |-> evm,
    rest_api |-> rest_api, steps |-> <<>>, exc |-> "", logged |-> FALSE ]

(***************************************************************************)
(* The appliance's disks as `parted <disk> unit GB print free` shows them. *)
(* A line of the output is kept as whether it contains 'Free Space' and    *)
(* the numbers of its words that contain 'GB', in tenths of a GB.  None is *)
(* the empty tuple, any other value v is <<v>>.                            *)
(***************************************************************************)
MaxDisks == 2   \* disks of one appliance

None == <<>>
Some(v) == <<v>>

Line(free, gb) == [ free |-> free, gb |-> gb ]

\* the outputs of parted on one disk
PartedOutputs ==
  LET boot == Line(FALSE, <<0, 11, 11>>)
      zero == Line(TRUE, <<0, 0, 0>>)
      r32 == Line(TRUE, <<429, 752, 322>>)
      r55 == Line(TRUE, <<429, 484, 55>>)
      r54 == Line(TRUE, <<375, 429, 54>>)
      bad == Line(TRUE, <<429, 752>>)
  IN { <<>>,
       << zero, boot >>,
       << zero, boot, r32 >>,
       << zero, boot, r55 >>,
       << r54, boot, r32 >>,
       << boot, r54 >>,
       << bad, boot >> }

DiskNames == << "/dev/vda", "/dev/vdb", "/dev/vdc" >>

\* one disk of self.appliance.disks and what parted answers for it
Disk(name, failed, lines) == [ name |-> name, failed |-> failed, lines |-> lines ]

DisksOfLen(n) ==
  { d \in [1..n -> [failed : BOOLEAN, lines : PartedOutputs]] :
      \A i \in 1..n : d[i].failed => d[i].lines = <<>> }

\* self.appliance.disks, in order
DiskLists ==
  UNION { { [i \in 1..n |-> Disk(DiskNames[i], d[i].failed, d[i].lines)] :
            d \in DisksOfLen(n) } : n \in 0..MaxDisks }

\* the appliance before any call that looks at its disks
NewDisks(disks, is_downstream, from_5_11) ==
  [ disks |-> disks, is_downstream |-> is_downstream, from_5_11 |-> from_5_11,
    partitioned |-> FALSE, op |-> "init", arg |-> 0, res |-> None,
    partition |-> None, cmds |-> <<>>, failed_cmd |-> 0 ]

Focuses == {"api", "entity", "collection", "search", "action"}

InitIn(F) ==
  /\ focus \in F
  /\ version \in Versions
  /\ coll = NewCollection(CollName, CollHref(CollName))
  /\ ent = NoEntity
  /\ hasEnt = FALSE
  /\ sr = <<>>
  /\ hasSr = FALSE
  /\ log = <<>>
  /\ ret = Ret("init", <<>>, Ok(JNull), <<>>)
  /\ db = NewAppliance("running", FALSE)
  /\ lvm = NewDisks(<<>>, TRUE, FALSE)

Init == InitIn(Focuses)
InitApi == InitIn({"api"})
InitEntity == InitIn({"entity"})
InitCollection == InitIn({"collection"})
InitSearch == InitIn({"search"})
InitAction == InitIn({"action"})

(***************************************************************************)
(* The verbs of API, called directly.                                      *)
(***************************************************************************)
\* what a server may answer to a request sent to an arbitrary address
AnyResponses ==
  ErrorBodies \cup TextBodies
  \cup { JsonBody(JDict("name" :> "a")), JsonBody(JList(<<>>)), JsonBody(JNull) }

ApiUrls == { EntryPoint, CollHref(CollName) }

OpApiGet ==
  /\ focus = "api"
  /\ \E url \in ApiUrls, resp \in AnyResponses :
       /\ log' = << Sent("GET", url, <<>>, resp) >>
       /\ ret' = Ret("API.get", url, ApiGet(resp), <<>>)
  /\ UNCHANGED <<lvm, db, focus, version, coll, ent, hasEnt, sr, hasSr>>

OpApiPost ==
  /\ focus = "api"
  /\ \E url \in ApiUrls, resp \in AnyResponses :
       /\ log' = << Sent("POST", url, ("action" :> "x"), resp) >>
       /\ ret' = Ret("API.post", url, ApiPost(resp), <<>>)
  /\ UNCHANGED <<lvm, db, focus, version, coll, ent, hasEnt, sr, hasSr>>

OpApiDelete ==
  /\ focus = "api"
  /\ \E url \in ApiUrls, resp \in AnyResponses :
       /\ log' = << Sent("DELETE", url, ("action" :> "x"), resp) >>
       /\ ret' = Ret("API.delete", url, ApiDelete(resp), <<>>)
  /\ UNCHANGED <<lvm, db, focus, version, coll, ent, hasEnt, sr, hasSr>>

NextApi == OpApiGet \/ OpApiPost \/ OpApiDelete

(***************************************************************************)
(* Entity operations on the entity the caller holds.                       *)
(***************************************************************************)
\* the attribute names a caller asks an entity for
AttrNames ==
  { "id", "href", "name", "created_on", "zone_id", "zone", "actions", "nosuch" }

\* API.get_entity(name, id), also reached through Collection.__call__
OpGetEntity ==
  /\ focus = "entity"
  /\ \E id \in Ids :
       \E e \in { GetEntity(CollName, id), GetEntityOf(coll, id) } :
       /\ ent' = e
       /\ hasEnt' = TRUE
       /\ log' = <<>>
       /\ ret' = Ret("API.get_entity", id, Ok(JNull), << e >>)
  /\ UNCHANGED <<lvm, db, focus, version, coll, sr, hasSr>>

\* the query parameters of Entity.reload(expand)
ExpandParams(expand) == IF expand # "" THEN ("expand" :> expand) ELSE <<>>

\* Entity.reload(expand) on the held entity
OpEntityReload ==
  /\ focus = "entity"
  /\ hasEnt
  /\ \E expand \in {"", "resources"}, resp \in EntityResponses(ent.href) :
       \E r \in { EntityReload(ent, resp) } :
       /\ ent' = r.ent
       /\ log' = << Sent("GET", ent.href, ExpandParams(expand), resp) >>
       /\ ret' = Ret("Entity.reload", expand, r.res, <<>>)
  /\ UNCHANGED <<lvm, db, focus, version, coll, hasEnt, sr, hasSr>>

\* the lookup of attr after normal attribute lookup has failed
\* (Entity.__getattr__), the GET of a stub being answered by resp
EntityGetattrNoReload(e, attr, resp) ==
  [res |-> Raise("AttributeError", <<attr>>), ent |-> e, sent |-> <<>>]
EntityGetattrAlwaysReload(e, attr, resp) ==
  LET r == EntityReload(e, resp)
      sent == << Sent("GET", e.href, <<>>, resp) >>
  IN IF r.res.st # "ok"
     THEN [res |-> r.res, ent |-> r.ent, sent |-> sent]
     ELSE IF attr \in DOMAIN r.ent.attrs
          THEN [res |-> Ok(r.ent.attrs[attr]), ent |-> r.ent, sent |-> sent]
          ELSE [res |-> Raise("AttributeError", <<attr>>), ent |-> r.ent, sent |-> sent]
EntityGetattr(e, attr, resp) ==
  IF ~e.loaded
  THEN LET r == EntityReload(e, resp)
           sent == << Sent("GET", e.href, <<>>, resp) >>
       IN IF r.res.st # "ok"
          THEN [res |-> r.res, ent |-> r.ent, sent |-> sent]
          ELSE IF attr \in DOMAIN r.ent.attrs
               THEN [res |-> Ok(r.ent.attrs[attr]), ent |-> r.ent, sent |-> sent]
               ELSE [res |-> Raise("AttributeError", <<attr>>), ent |-> r.ent,
                     sent |-> sent]
  ELSE [res |-> Raise("AttributeError", <<attr>>), ent |-> e, sent |-> <<>>]

\* reading entity.attr
OpEntityGetattr ==
  /\ focus = "entity"
  /\ hasEnt
  /\ \E attr \in AttrNames :
       IF attr \in DOMAIN ent.attrs
       THEN /\ ret' = Ret("Entity.getattr", attr, Ok(ent.attrs[attr]), <<>>)
            /\ log' = <<>>
            /\ ent' = ent
       ELSE \E resp \in EntityResponses(ent.href) :
              \E r \in { EntityGetattr(ent, attr, resp) } :
              /\ ent' = r.ent
              /\ log' = r.sent
              /\ ret' = Ret("Entity.getattr", attr, r.res, <<>>)
  /\ UNCHANGED <<lvm, db, focus, version, coll, hasEnt, sr, hasSr>>

(***************************************************************************)
(* Documents served for a collection.                                      *)
(***************************************************************************)
EntityUrls(name) == { EntityHref(name, id) : id \in Ids }

\* one resource fragment of a listing: a reference, or the whole body when
\* the listing is expanded
Fragment(name, id, expand) ==
  IF expand
  THEN IdentityPart(EntityHref(name, id)) @@ ("name" :> "a")
  ELSE ("href" :> EntityHref(name, id))

\* a fragment that carries no address at all
BadFragment == ("name" :> "a")

\* the listings of at most MaxRes entities, in id order, and the same
\* followed by a fragment without address
IdSets == { S \in SUBSET (1..MaxId) : Cardinality(S) <= MaxRes }
Nth(S, i) == CHOOSE x \in S : Cardinality({ y \in S : y < x }) = i - 1
Listing(name, S, expand) ==
  [i \in 1..Cardinality(S) |-> Fragment(name, <<IdNames[Nth(S, i)]>>, expand)]
Listings(name, expand) ==
  { Listing(name, S, expand) : S \in IdSets }
  \cup { Append(Listing(name, S, expand), BadFragment) :
           S \in { T \in IdSets : Cardinality(T) < MaxRes } }

CollActionLists(href) ==
  { << Action("add", "post", href), Action("delete", "delete", href),
       Action("query", "get", href) >> }

CollDoc(name, resources) ==
  ("name" :> name) @@ ("count" :> Len(resources)) @@
  ("subcount" :> Len(resources)) @@ ("resources" :> resources)

OtherName == "services"

CollDocs(name, expand) ==
  { CollDoc(name, r) : r \in Listings(name, expand) }
  \cup { CollDoc(name, Listing(name, S, expand)) @@ ("actions" :> a) :
           S \in IdSets, a \in CollActionLists(CollHref(name)) }
  \cup { CollDoc(OtherName, Listing(name, S, expand)) :
           S \in { T \in IdSets : Cardinality(T) = 1 } }

\* what the server may answer to a GET of a collection address
CollResponses(name, expand) ==
  { JsonBody(JDict(d)) : d \in CollDocs(name, expand) } \cup FailBodies

\* the answer to a filtered GET: the matching references
SearchDocs(name) ==
  { ("name" :> name) @@ ("count" :> MaxId) @@ ("subcount" :> Len(r)) @@
    ("resources" :> r) : r \in Listings(name, FALSE) }

SearchResponses(name) ==
  { JsonBody(JDict(d)) : d \in SearchDocs(name) } \cup FailBodies

(***************************************************************************)
(* Collection operations.                                                  *)
(***************************************************************************)
\* the query parameters of Collection.reload(expand)
CollReloadParamsNoExpand(expand) == <<>>
CollReloadParams(expand) == IF expand THEN ("expand" :> "resources") ELSE <<>>

\* Collection.reload when the GET of c.href is answered by resp
CollectionReload(c, resp) ==
  LET r == ApiGet(resp) IN
  IF r.st # "ok" THEN [res |-> r, coll |-> c]
  ELSE IF r.val.t # "dict"
       THEN [res |-> Raise("TypeError", <<>>),
             coll |-> [c EXCEPT !.loaded = (r.val.t # "null")]]
       ELSE LET data == r.val.d
                c0 == [c EXCEPT !.loaded = TRUE]
                missing == {"resources", "count", "subcount", "name"} \ DOMAIN data
            IN IF "resources" \in missing
               THEN [res |-> Raise("KeyError", <<"resources">>), coll |-> c0]
               ELSE IF "count" \in missing
               THEN [res |-> Raise("KeyError", <<"count">>),
                     coll |-> [c0 EXCEPT !.resources = data["resources"]]]
               ELSE IF "subcount" \in missing
               THEN [res |-> Raise("KeyError", <<"subcount">>),
                     coll |-> [c0 EXCEPT !.resources = data["resources"],
                                         !.count = data["count"]]]
               ELSE LET c1 == [c0 EXCEPT !.resources = data["resources"],
                                         !.count = data["count"],
                                         !.subcount = data["subcount"],
                                         !.hasActions = TRUE,
                                         !.actions = IF "actions" \in DOMAIN data
                                                     THEN data["actions"] ELSE <<>>]
                    IN IF "name" \in missing
                       THEN [res |-> Raise("KeyError", <<"name">>), coll |-> c1]
                       ELSE IF data["name"] # c.name
                       THEN [res |-> Raise("ValueError", <<"Name mishap!">>),
                             coll |-> [c1 EXCEPT !.dataName = data["name"]]]
                       ELSE [res |-> Ok(JNull),
                             coll |-> [c1 EXCEPT !.dataName = data["name"]]]

\* map(lambda r: Entity(self, r), resources): the entities built before the
\* first constructor that raises, and the outcome
RECURSIVE BuildEntities(_, _)
BuildEntities(collname, frags) ==
  IF frags = <<>> THEN [res |-> Ok(JNull), ents |-> <<>>]
  ELSE LET first == NewEntity(collname, Head(frags)) IN
       IF first.res.st # "ok" THEN [res |-> first.res, ents |-> <<>>]
       ELSE LET rest == BuildEntities(collname, Tail(frags))
            IN [res |-> rest.res, ents |-> <<first.ent>> \o rest.ents]

\* Collection.reload(expand)
OpCollReload ==
  /\ focus \in {"collection", "action"}
  /\ \E expand \in BOOLEAN : \E resp \in CollResponses(coll.name, expand) :
       \E r \in { CollectionReload(coll, resp) } :
       /\ coll' = r.coll
       /\ log' = << Sent("GET", coll.href, CollReloadParams(expand), resp) >>
       /\ ret' = Ret("Collection.reload", expand, r.res, <<>>)
  /\ UNCHANGED <<lvm, db, focus, version, ent, hasEnt, sr, hasSr>>

\* Collection.reload_if_needed when a GET it sends is answered by resp
ReloadAlways(c, resp) ==
  LET r == CollectionReload(c, resp)
  IN [res |-> r.res, coll |-> r.coll, sent |-> << Sent("GET", c.href, <<>>, resp) >>]
ReloadIfNeeded(c, resp) ==
  IF ~c.loaded
  THEN LET r == CollectionReload(c, resp)
       IN [res |-> r.res, coll |-> r.coll,
           sent |-> << Sent("GET", c.href, <<>>, resp) >>]
  ELSE [res |-> Ok(JNull), coll |-> c, sent |-> <<>>]

\* the answers that matter to reload_if_needed: none is read when a
\* snapshot is cached
NeededResponses(c) ==
  IF c.loaded THEN { JsonBody(JNull) } ELSE CollResponses(c.name, FALSE)

\* Collection.count; Collection.subcount, which is also len(collection)
OpCollCount ==
  /\ focus = "collection"
  /\ \E which \in {"count", "subcount"}, resp \in NeededResponses(coll) :
       \E r \in { ReloadIfNeeded(coll, resp) } :
       LET n == IF which = "count" THEN r.coll.count ELSE r.coll.subcount IN
       /\ coll' = r.coll
       /\ log' = r.sent
       /\ ret' = IF r.res.st # "ok"
                 THEN Ret("Collection.count", which, r.res, <<>>)
                 ELSE Ret("Collection.count", which, Ok(n), <<>>)
  /\ UNCHANGED <<lvm, db, focus, version, ent, hasEnt, sr, hasSr>>

\* Collection.all
OpCollAll ==
  /\ focus = "collection"
  /\ \E resp \in NeededResponses(coll) :
       \E r \in { ReloadIfNeeded(coll, resp) } :
       \E b \in { BuildEntities(coll.name, r.coll.resources) } :
       /\ coll' = r.coll
       /\ log' = r.sent
       /\ ret' = IF r.res.st # "ok"
                 THEN Ret("Collection.all", <<>>, r.res, <<>>)
                 ELSE IF b.res.st # "ok"
                      THEN Ret("Collection.all", <<>>, b.res, <<>>)
                      ELSE Ret("Collection.all", <<>>, b.res, b.ents)
  /\ UNCHANGED <<lvm, db, focus, version, ent, hasEnt, sr, hasSr>>

\* for entity in collection: the iteration run to its end
OpCollIter ==
  /\ focus = "collection"
  /\ \E resp \in CollResponses(coll.name, TRUE) :
       \E r \in { CollectionReload(coll, resp) } :
       \E b \in { BuildEntities(coll.name, r.coll.resources) } :
       /\ coll' = r.coll
       /\ log' = << Sent("GET", coll.href, CollReloadParams(TRUE), resp) >>
       /\ ret' = IF r.res.st # "ok"
                 THEN Ret("Collection.iter", <<>>, r.res, <<>>)
                 ELSE Ret("Collection.iter", <<>>, b.res, b.ents)
  /\ UNCHANGED <<lvm, db, focus, version, ent, hasEnt, sr, hasSr>>

\* collection[position]
OpCollGetitem ==
  /\ focus = "collection"
  /\ \E position \in 0..(MaxRes - 1), resp \in NeededResponses(coll) :
       \E r \in { ReloadIfNeeded(coll, resp) } :
       /\ coll' = r.coll
       /\ IF r.res.st # "ok"
          THEN /\ log' = r.sent
               /\ ret' = Ret("Collection.getitem", position, r.res, <<>>)
          ELSE IF position >= Len(r.coll.resources)
          THEN /\ log' = r.sent
               /\ ret' = Ret("Collection.getitem", position,
                             Raise("IndexError", <<>>), <<>>)
          ELSE \E n \in { NewEntity(coll.name, r.coll.resources[position + 1]) } :
               IF n.res.st # "ok"
               THEN /\ log' = r.sent
                    /\ ret' = Ret("Collection.getitem", position, n.res, <<>>)
               ELSE \E eresp \in EntityResponses(n.ent.href) :
                      \E er \in { EntityReload(n.ent, eresp) } :
                      /\ log' = r.sent \o << Sent("GET", n.ent.href, <<>>, eresp) >>
                      /\ IF er.res.st # "ok"
                         THEN /\ ret' = Ret("Collection.getitem", position, er.res, <<>>)
                         ELSE /\ ret' = Ret("Collection.getitem", position, er.res,
                                            << er.ent >>)
  /\ UNCHANGED <<lvm, db, focus, version, ent, hasEnt, sr, hasSr>>

(***************************************************************************)
(* Searching a collection.                                                 *)
(***************************************************************************)
\* repr(str(value))
Repr(value) == <<"'", value, "'">>

\* the keyword arguments of find_by, as a sequence of (key, value) pairs
FindParams == { << <<"name", "x">> >> }

\* the parameters of the GET sent by Collection._find_by_sqlfilter
\* (" AND ".join of "key = value") and by Collection._find_by_filter
SqlfilterParams(params) ==
  ("sqlfilter" :> [i \in 1..Len(params) |-> <<params[i][1], " = ", Repr(params[i][2])>>])
FilterParams(params) ==
  ("filter[]" :> [i \in 1..Len(params) |-> <<params[i][1], "=", Repr(params[i][2])>>])

\* SearchResult.__init__ over the decoded answer
NewSearchResult(collname, data) ==
  LET missing == {"count", "subcount", "name", "resources"} \ DOMAIN data IN
  IF missing # {}
  THEN [ res |-> Raise("KeyError", <<>>),
         sr |-> [ count |-> 0, subcount |-> 0, name |-> "", resources |-> <<>> ] ]
  ELSE LET b == BuildEntities(collname, data["resources"]) IN
       [ res |-> b.res,
         sr |-> [ count |-> data["count"], subcount |-> data["subcount"],
                  name |-> data["name"], resources |-> b.ents ] ]

NoSearchResult == [ count |-> 0, subcount |-> 0, name |-> "", resources |-> <<>> ]

\* one of the two _find_by_ methods: the GET with the given parameters,
\* answered by resp, and the SearchResult built from it
FindWith(c, qparams, resp) ==
  LET r == ApiGet(resp)
      sent == << Sent("GET", c.href, qparams, resp) >>
  IN IF r.st # "ok" THEN [res |-> r, sr |-> NoSearchResult, sent |-> sent]
     ELSE IF r.val.t # "dict"
          THEN [res |-> Raise("AttributeError", <<>>), sr |-> NoSearchResult,
                sent |-> sent]
          ELSE LET n == NewSearchResult(c.name, r.val.d)
               IN [res |-> n.res, sr |-> n.sr, sent |-> sent]

\* which dialects Collection.find_by uses: "both" tries one then the other
FindDialectFrom11 ==
  IF VersionEQ(version, V_2_0_0_pre) THEN "both"
  ELSE IF VersionGE(version, V_1_1) THEN "filter" ELSE "sqlfilter"
FindDialectAlwaysBoth == "both"
FindDialect ==
  IF VersionEQ(version, V_2_0_0_pre) THEN "both"
  ELSE IF IsInSeries(version, V_1_1) \/ VersionGE(version, V_2_0_0)
       THEN "filter" ELSE "sqlfilter"

\* Collection.find_by(**params): resp1 answers the first GET and resp2 the
\* second one, if it is sent
FindByFilterFirst(c, params, resp1, resp2) ==
  IF FindDialect = "both"
  THEN LET first == FindWith(c, FilterParams(params), resp1) IN
       IF first.res.st = "APIException"
       THEN LET second == FindWith(c, SqlfilterParams(params), resp2)
            IN [second EXCEPT !.sent = first.sent \o second.sent]
       ELSE first
  ELSE IF FindDialect = "filter"
       THEN FindWith(c, FilterParams(params), resp1)
       ELSE FindWith(c, SqlfilterParams(params), resp1)
FindBy(c, params, resp1, resp2) ==
  IF FindDialect = "both"
  THEN LET first == FindWith(c, SqlfilterParams(params), resp1) IN
       IF first.res.st = "APIException"
       THEN LET second == FindWith(c, FilterParams(params), resp2)
            IN [second EXCEPT !.sent = first.sent \o second.sent]
       ELSE first
  ELSE IF FindDialect = "filter"
       THEN FindWith(c, FilterParams(params), resp1)
       ELSE FindWith(c, SqlfilterParams(params), resp1)

\* whether find_by sends a second GET after the answer resp1
SendsSecond(c, params, resp1) ==
  Len(FindBy(c, params, resp1, resp1).sent) = 2

\* the answers to the second GET that matter
SecondResponses(c, params, resp1) ==
  IF SendsSecond(c, params, resp1)
  THEN SearchResponses(c.name) ELSE { JsonBody(JNull) }

\* a find_by that keeps the count and subcount of its answer on the collection
OpCollFindByStoring ==
  /\ focus \in {"collection", "search"}
  /\ \E params \in FindParams, resp1 \in SearchResponses(coll.name) :
       \E resp2 \in SecondResponses(coll, params, resp1) :
         \E f \in { FindBy(coll, params, resp1, resp2) } :
         /\ log' = f.sent
         /\ IF f.res.st = "ok"
            THEN /\ ret' = Ret("Collection.find_by", params, f.res, f.sr.resources)
                 /\ coll' = [coll EXCEPT !.count = f.sr.count,
                                         !.subcount = f.sr.subcount]
                 /\ sr' = IF focus = "search" THEN f.sr ELSE sr
                 /\ hasSr' = (focus = "search")
            ELSE /\ ret' = Ret("Collection.find_by", params, f.res, <<>>)
                 /\ UNCHANGED <<coll, sr, hasSr>>
  /\ UNCHANGED <<lvm, db, focus, version, ent, hasEnt>>

\* Collection.find_by(**params)
OpCollFindBy ==
  /\ focus \in {"collection", "search"}
  /\ \E params \in FindParams, resp1 \in SearchResponses(coll.name) :
       \E resp2 \in SecondResponses(coll, params, resp1) :
         \E f \in { FindBy(coll, params, resp1, resp2) } :
         /\ log' = f.sent
         /\ IF f.res.st = "ok"
            THEN /\ ret' = Ret("Collection.find_by", params, f.res, f.sr.resources)
                 /\ sr' = IF focus = "search" THEN f.sr ELSE sr
                 /\ hasSr' = (focus = "search")
            ELSE /\ ret' = Ret("Collection.find_by", params, f.res, <<>>)
                 /\ UNCHANGED <<sr, hasSr>>
  /\ UNCHANGED <<lvm, db, focus, version, coll, ent, hasEnt>>

\* SearchResult.__getitem__(position): the entity is reloaded in place
SearchResultGetitem(s, position, resp) ==
  IF position >= Len(s.resources)
  THEN [res |-> Raise("IndexError", <<>>), sr |-> s, sent |-> <<>>]
  ELSE LET e == s.resources[position + 1]
           r == EntityReload(e, resp)
       IN [res |-> r.res,
           sr |-> [s EXCEPT !.resources[position + 1] = r.ent],
           sent |-> << Sent("GET", e.href, <<>>, resp) >>]

ItemResponses(s, position) ==
  IF position >= Len(s.resources) THEN { JsonBody(JNull) }
  ELSE EntityResponses(s.resources[position + 1].href)

\* Collection.get(**params)
OpCollGet ==
  /\ focus \in {"collection", "search"}
  /\ \E params \in FindParams, resp1 \in SearchResponses(coll.name) :
       \E resp2 \in SecondResponses(coll, params, resp1) :
         \E f \in { FindBy(coll, params, resp1, resp2) } :
           IF f.res.st # "ok"
           THEN /\ log' = f.sent
                /\ ret' = Ret("Collection.get", params, f.res, <<>>)
           ELSE \E eresp \in ItemResponses(f.sr, 0) :
                  \E g \in { SearchResultGetitem(f.sr, 0, eresp) } :
                    /\ log' = f.sent \o g.sent
                    /\ IF g.res.st = "IndexError"
                       THEN ret' = Ret("Collection.get", params,
                                       Raise("Exception", <<"No such object!">>), <<>>)
                       ELSE IF g.res.st # "ok"
                       THEN ret' = Ret("Collection.get", params, g.res, <<>>)
                       ELSE ret' = Ret("Collection.get", params, g.res,
                                       << g.sr.resources[1] >>)
  /\ UNCHANGED <<lvm, db, focus, version, coll, ent, hasEnt, sr, hasSr>>

\* search_result[position]
OpSearchGetitem ==
  /\ focus = "search"
  /\ hasSr
  /\ \E position \in 0..(MaxRes - 1) : \E resp \in ItemResponses(sr, position) :
       \E g \in { SearchResultGetitem(sr, position, resp) } :
       /\ sr' = g.sr
       /\ log' = g.sent
       /\ IF g.res.st = "ok"
          THEN ret' = Ret("SearchResult.getitem", position, g.res,
                          << g.sr.resources[position + 1] >>)
          ELSE ret' = Ret("SearchResult.getitem", position, g.res, <<>>)
  /\ UNCHANGED <<lvm, db, focus, version, coll, ent, hasEnt, hasSr>>

\* for entity in search_result, run to its end: resps[i] answers the reload
\* of the i-th resource; the iteration stops at the first reload that raises
RECURSIVE SearchResultIter(_, _, _)
SearchResultIter(s, i, resps) ==
  IF i > Len(s.resources)
  THEN [res |-> Ok(JNull), sr |-> s, sent |-> <<>>, ents |-> <<>>]
  ELSE LET g == SearchResultGetitem(s, i - 1, resps[i]) IN
       IF g.res.st # "ok"
       THEN [res |-> g.res, sr |-> g.sr, sent |-> g.sent, ents |-> <<>>]
       ELSE LET rest == SearchResultIter(g.sr, i + 1, resps)
            IN [res |-> rest.res, sr |-> rest.sr, sent |-> g.sent \o rest.sent,
                ents |-> << g.sr.resources[i] >> \o rest.ents]

\* the answers to the reloads of an iteration from the i-th resource on, one
\* per resource; behind an answer that makes the reload raise, the
\* iteration sends nothing, and the remaining answers are left null
RECURSIVE IterResponsesFrom(_, _)
IterResponsesFrom(s, i) ==
  IF i > Len(s.resources) THEN { <<>> }
  ELSE LET unsent == [j \in 1..(Len(s.resources) - i) |-> JsonBody(JNull)]
       IN UNION { IF EntityReload(s.resources[i], r).res.st # "ok"
                  THEN { <<r>> \o unsent }
                  ELSE { <<r>> \o q : q \in IterResponsesFrom(s, i + 1) } :
                  r \in EntityResponses(s.resources[i].href) }

IterResponses(s) == IterResponsesFrom(s, 1)

OpSearchIter ==
  /\ focus = "search"
  /\ hasSr
  /\ \E resps \in IterResponses(sr) :
       \E it \in { SearchResultIter(sr, 1, resps) } :
       /\ sr' = it.sr
       /\ log' = it.sent
       /\ ret' = Ret("SearchResult.iter", <<>>, it.res, it.ents)
  /\ UNCHANGED <<lvm, db, focus, version, coll, ent, hasEnt, hasSr>>

(***************************************************************************)
(* ActionContainer and Action.                                             *)
(***************************************************************************)
\* the attributes ActionContainer.reload sets for a list of actions
RECURSIVE ContainerAttrs(_)
ContainerAttrs(actions) ==
  IF actions = <<>> THEN <<>>
  ELSE LET a == actions[Len(actions)]
       IN (a.name :> a) @@ ContainerAttrs(SubSeq(actions, 1, Len(actions) - 1))

\* the attributes of the container after ActionContainer.reload, the owner
\* having a snapshot
ReloadedContainer(owner) == ContainerAttrs(owner.actions) @@ owner.ac

\* map(lambda a: a["name"], actions)
ActionNamesOf(actions) == [i \in 1..Len(actions) |-> actions[i].name]

\* the values passed as positional arguments: an Entity or a plain dict
ArgValues == { GetEntity(CollName, <<IdNames[1]>>), ("name" :> "n") }
IsEntityArg(x) == "href" \in DOMAIN x /\ "attrs" \in DOMAIN x

RECURSIVE SeqsUpTo(_, _)
SeqsUpTo(S, n) ==
  IF n = 0 THEN { <<>> }
  ELSE LET shorter == SeqsUpTo(S, n - 1)
       IN shorter \cup { Append(q, x) : q \in shorter, x \in S }

ArgLists == SeqsUpTo(ArgValues, MaxArgs)
KwargsValues == { <<>>, ("name" :> "n") }

\* the body Action.__call__ sends
QueryDictMerged(name, args, kwargs) ==
  LET resources == [i \in 1..Len(args) |->
                      IF IsEntityArg(args[i]) THEN RefRepr(args[i]) ELSE args[i]]
  IN ("action" :> name)
     @@ (IF resources # <<>> THEN ("resources" :> resources) ELSE <<>>)
     @@ (IF kwargs # <<>> THEN ("resource" :> kwargs) ELSE <<>>)
QueryDict(name, args, kwargs) ==
  LET resources == [i \in 1..Len(args) |->
                      IF IsEntityArg(args[i]) THEN RefRepr(args[i]) ELSE args[i]]
  IN ("action" :> name)
     @@ (IF resources # <<>> THEN ("resources" :> resources)
         ELSE IF kwargs # <<>> THEN ("resource" :> kwargs) ELSE <<>>)

\* the elements of a `results` array
ResultElems ==
  { ("id" :> i) : i \in Ids }
  \cup { ("href" :> EntityHref(OtherName, <<IdNames[1]>>)),
         ("id" :> <<IdNames[1]>>) @@ ("href" :> EntityHref(OtherName, <<IdNames[1]>>)),
         ("success" :> "true") }

ResultLists ==
  { <<>> } \cup { <<e>> : e \in ResultElems }
  \cup { << ("id" :> <<IdNames[1]>>), ("href" :> EntityHref(OtherName, <<IdNames[1]>>)) >>,
         << ("id" :> <<IdNames[1]>>), ("success" :> "true") >> }

\* what the server may answer to the POST or DELETE of an action
ActionResponses ==
  { TextBody(<<>>), TextBody(<<"<", "h", ">">>), JsonBody(JNull),
    JsonBody(ErrorEnvelope("ActiveRecord::RecordNotFound", "bar")),
    JsonBody(JDict("success" :> "true")) }
  \cup { JsonBody(JDict("results" :> l)) : l \in ResultLists }

\* the entities Action.__call__ builds from a `results` array
RECURSIVE ProcessResultsHrefFirst(_, _)
ProcessResultsHrefFirst(collname, results) ==
  IF results = <<>> THEN [res |-> Ok(JNull), ents |-> <<>>]
  ELSE LET data == Head(results)
           rest == ProcessResultsHrefFirst(collname, Tail(results))
       IN IF "href" \in DOMAIN data
          THEN [res |-> rest.res,
                ents |-> << StubEntity(collname, data["href"]) >> \o rest.ents]
          ELSE IF "id" \in DOMAIN data
               THEN [res |-> rest.res,
                     ents |-> << StubEntity(collname, Join(CollHref(collname), data["id"])) >>
                              \o rest.ents]
               ELSE [res |-> Raise("NotImplementedError", <<>>), ents |-> <<>>]

RECURSIVE ProcessResults(_, _)
ProcessResults(collname, results) ==
  IF results = <<>> THEN [res |-> Ok(JNull), ents |-> <<>>]
  ELSE LET data == Head(results)
           rest == ProcessResults(collname, Tail(results))
       IN IF "id" \in DOMAIN data
          THEN [res |-> rest.res,
                ents |-> << StubEntity(collname, Join(CollHref(collname), data["id"])) >>
                         \o rest.ents]
          ELSE IF "href" \in DOMAIN data
               THEN [res |-> rest.res,
                     ents |-> << StubEntity(collname, data["href"]) >> \o rest.ents]
               ELSE [res |-> Raise("NotImplementedError", <<>>), ents |-> <<>>]

\* Action.__call__(*args, **kwargs) of an action of a container whose
\* collection is collname, the request being answered by resp
ActionCallPostByDefault(collname, action, args, kwargs, resp) ==
  LET r == IF action.method = "delete" THEN ApiDelete(resp) ELSE ApiPost(resp)
      verb == IF action.method = "delete" THEN "DELETE" ELSE "POST"
  IN [res |-> r, ents |-> <<>>,
      sent |-> << Sent(verb, action.href, QueryDict(action.name, args, kwargs), resp) >>]
ActionCall(collname, action, args, kwargs, resp) ==
  LET body == QueryDict(action.name, args, kwargs) IN
  IF action.method \notin {"post", "delete"}
  THEN [res |-> Raise("NotImplementedError", <<>>), ents |-> <<>>, sent |-> <<>>]
  ELSE LET r == IF action.method = "post" THEN ApiPost(resp) ELSE ApiDelete(resp)
           verb == IF action.method = "post" THEN "POST" ELSE "DELETE"
           sent == << Sent(verb, action.href, body, resp) >>
       IN IF r.st # "ok" THEN [res |-> r, ents |-> <<>>, sent |-> sent]
          ELSE IF r.val.t = "null" THEN [res |-> r, ents |-> <<>>, sent |-> sent]
          ELSE IF r.val.t = "dict" /\ "results" \in DOMAIN r.val.d
               THEN LET p == ProcessResults(collname, r.val.d["results"])
                    IN IF p.res.st # "ok"
                       THEN [res |-> p.res, ents |-> <<>>, sent |-> sent]
                       ELSE [res |-> Ok(JList(<<>>)), ents |-> p.ents, sent |-> sent]
               ELSE [res |-> r, ents |-> <<>>, sent |-> sent]

\* the inputs of one invocation: the call varies under the plain answer, or
\* the answer varies under the plain call
PlainAnswer == JsonBody(JDict("success" :> "true"))
CallInputs ==
  { [args |-> a, kwargs |-> k, resp |-> PlainAnswer] : a \in ArgLists, k \in KwargsValues }
  \cup { [args |-> <<>>, kwargs |-> <<>>, resp |-> r] : r \in ActionResponses }

\* the action names a caller asks a container for
ActionNames == { "add", "delete", "edit", "query" }

\* ActionContainer.__getattr__(name) of the collection's container, after
\* normal lookup has failed
CollContainerGetattr(c, name, resp) ==
  LET r == ReloadIfNeeded(c, resp) IN
  IF r.res.st # "ok" THEN [res |-> r.res, coll |-> r.coll, sent |-> r.sent]
  ELSE IF ~r.coll.hasActions
       THEN [res |-> Raise("AttributeError", <<"_actions">>), coll |-> r.coll,
             sent |-> r.sent]
       ELSE LET c1 == [r.coll EXCEPT !.ac = ReloadedContainer(r.coll)] IN
            IF name \in DOMAIN c1.ac
            THEN [res |-> Ok(JNull), coll |-> c1, sent |-> r.sent]
            ELSE [res |-> Raise("AttributeError", <<"No such action", name>>),
                  coll |-> c1, sent |-> r.sent]

\* collection.action.<name>
OpCollActionGetattr ==
  /\ focus = "action"
  /\ \E name \in ActionNames :
       IF name \in DOMAIN coll.ac
       THEN /\ coll' = coll
            /\ log' = <<>>
            /\ ret' = Ret("Collection.action.getattr", name, Ok(JNull), << coll.ac[name] >>)
       ELSE \E resp \in NeededResponses(coll) :
              \E g \in { CollContainerGetattr(coll, name, resp) } :
              /\ coll' = g.coll
              /\ log' = g.sent
              /\ ret' = Ret("Collection.action.getattr", name, g.res,
                            IF g.res.st = "ok" THEN << g.coll.ac[name] >> ELSE <<>>)
  /\ UNCHANGED <<lvm, db, focus, version, ent, hasEnt, sr, hasSr>>

\* collection.action.all, which `name in collection.action` also evaluates
OpCollActionAll ==
  /\ focus = "action"
  /\ \E resp \in NeededResponses(coll) :
       \E r \in { ReloadIfNeeded(coll, resp) } :
       /\ log' = r.sent
       /\ IF r.res.st # "ok"
          THEN /\ coll' = r.coll
               /\ ret' = Ret("Collection.action.all", <<>>, r.res, <<>>)
          ELSE IF ~r.coll.hasActions
          THEN /\ coll' = r.coll
               /\ ret' = Ret("Collection.action.all", <<>>,
                             Raise("AttributeError", <<"_actions">>), <<>>)
          ELSE /\ coll' = [r.coll EXCEPT !.ac = ReloadedContainer(r.coll)]
               /\ ret' = Ret("Collection.action.all", <<>>, Ok(JNull),
                             ActionNamesOf(r.coll.actions))
  /\ UNCHANGED <<lvm, db, focus, version, ent, hasEnt, sr, hasSr>>

\* calling an Action object obtained from the collection's container
OpCollActionCall ==
  /\ focus = "action"
  /\ \E name \in DOMAIN coll.ac, in \in CallInputs :
       \E c \in { ActionCall(coll.name, coll.ac[name], in.args, in.kwargs, in.resp) } :
       /\ log' = c.sent
       /\ ret' = Ret("Action.call", [name |-> name, args |-> in.args, kwargs |-> in.kwargs],
                     c.res, c.ents)
  /\ UNCHANGED <<lvm, db, focus, version, coll, ent, hasEnt, sr, hasSr>>

\* Entity.reload_if_needed when a GET it sends is answered by resp
EntityReloadIfNeeded(e, resp) ==
  IF ~e.loaded
  THEN LET r == EntityReload(e, resp)
       IN [res |-> r.res, ent |-> r.ent, sent |-> << Sent("GET", e.href, <<>>, resp) >>]
  ELSE [res |-> Ok(JNull), ent |-> e, sent |-> <<>>]

EntityNeededResponses(e) ==
  IF e.loaded THEN { JsonBody(JNull) } ELSE EntityResponses(e.href)

\* ActionContainer.__getattr__(name) of the entity's container, after normal
\* lookup has failed
EntityContainerGetattr(e, name, resp) ==
  LET r == EntityReloadIfNeeded(e, resp) IN
  IF r.res.st # "ok" THEN [res |-> r.res, ent |-> r.ent, sent |-> r.sent]
  ELSE IF ~r.ent.hasActions
       THEN [res |-> Raise("AttributeError", <<"_actions">>), ent |-> r.ent,
             sent |-> r.sent]
       ELSE LET e1 == [r.ent EXCEPT !.ac = ReloadedContainer(r.ent)] IN
            IF name \in DOMAIN e1.ac
            THEN [res |-> Ok(JNull), ent |-> e1, sent |-> r.sent]
            ELSE [res |-> Raise("AttributeError", <<"No such action", name>>),
                  ent |-> e1, sent |-> r.sent]

\* entity.action.<name>
OpEntityActionGetattr ==
  /\ focus = "entity"
  /\ hasEnt
  /\ \E name \in ActionNames :
       IF name \in DOMAIN ent.ac
       THEN /\ ent' = ent
            /\ log' = <<>>
            /\ ret' = Ret("Entity.action.getattr", name, Ok(JNull), << ent.ac[name] >>)
       ELSE \E resp \in EntityNeededResponses(ent) :
              \E g \in { EntityContainerGetattr(ent, name, resp) } :
              /\ ent' = g.ent
              /\ log' = g.sent
              /\ ret' = Ret("Entity.action.getattr", name, g.res,
                            IF g.res.st = "ok" THEN << g.ent.ac[name] >> ELSE <<>>)
  /\ UNCHANGED <<lvm, db, focus, version, coll, hasEnt, sr, hasSr>>

\* entity.action.all, which `name in entity.action` also evaluates
OpEntityActionAll ==
  /\ focus = "entity"
  /\ hasEnt
  /\ \E resp \in EntityNeededResponses(ent) :
       \E r \in { EntityReloadIfNeeded(ent, resp) } :
       /\ log' = r.sent
       /\ IF r.res.st # "ok"
          THEN /\ ent' = r.ent
               /\ ret' = Ret("Entity.action.all", <<>>, r.res, <<>>)
          ELSE IF ~r.ent.hasActions
          THEN /\ ent' = r.ent
               /\ ret' = Ret("Entity.action.all", <<>>,
                             Raise("AttributeError", <<"_actions">>), <<>>)
          ELSE /\ ent' = [r.ent EXCEPT !.ac = ReloadedContainer(r.ent)]
               /\ ret' = Ret("Entity.action.all", <<>>, Ok(JNull),
                             ActionNamesOf(r.ent.actions))
  /\ UNCHANGED <<lvm, db, focus, version, coll, hasEnt, sr, hasSr>>

\* calling an Action object obtained from the entity's container
OpEntityActionCall ==
  /\ focus = "entity"
  /\ hasEnt
  /\ \E name \in DOMAIN ent.ac, in \in CallInputs :
       \E c \in { ActionCall(ent.coll, ent.ac[name], in.args, in.kwargs, in.resp) } :
       /\ log' = c.sent
       /\ ret' = Ret("Action.call", [name |-> name, args |-> in.args, kwargs |-> in.kwargs],
                     c.res, c.ents)
  /\ UNCHANGED <<lvm, db, focus, version, coll, ent, hasEnt, sr, hasSr>>

NextEntity ==
  \/ OpGetEntity \/ OpEntityReload \/ OpEntityGetattr
  \/ OpEntityActionGetattr \/ OpEntityActionAll \/ OpEntityActionCall

NextAction == OpCollReload \/ OpCollActionGetattr \/ OpCollActionAll \/ OpCollActionCall

NextCollection ==
  \/ OpCollReload \/ OpCollCount \/ OpCollAll \/ OpCollIter \/ OpCollGetitem
  \/ OpCollFindBy \/ OpCollGet

NextSearch == OpCollFindBy \/ OpCollGet \/ OpSearchGetitem \/ OpSearchIter

Next == NextApi \/ NextEntity \/ NextCollection \/ NextSearch \/ NextAction

Spec == Init /\ [][Next]_vars
SpecApi == InitApi /\ [][NextApi]_vars
SpecEntity == InitEntity /\ [][NextEntity]_vars
SpecCollection == InitCollection /\ [][NextCollection]_vars
SpecSearch == InitSearch /\ [][NextSearch]_vars
SpecAction == InitAction /\ [][NextAction]_vars

\* the calls that go through the three verbs and through an Action
InitCalls == InitIn({"api", "action"})
NextCalls == NextApi \/ NextAction
SpecCalls == InitCalls /\ [][NextCalls]_vars

(***************************************************************************)
(* ApplianceDB.restore_database, one action per statement.  Every step    *)
(* runs commands on the appliance and may fail; a failing step raises and  *)
(* ends the call at that statement.                                        *)
(***************************************************************************)
clientVars == <<focus, version, coll, ent, hasEnt, sr, hasSr, log, ret>>

\* the statement of restore_database that runs after `step` has returned
StepAfterAlwaysMigrate(step, is_major) ==
  CASE step = "evmserverd.stop" -> "drop"
    [] step = "drop" -> "create"
    [] step = "create" -> "restore"
    [] step = "restore" -> "fix_auth_key"
    [] step = "fix_auth_key" -> "migrate"
    [] step = "migrate" -> "automate_reset"
    [] step = "automate_reset" -> "evmserverd.start"
    [] step = "evmserverd.start" -> "wait_for_miq_ready"
    [] step = "wait_for_miq_ready" -> "reset_user_pass"
    [] step = "reset_user_pass" -> "delattr rest_api"
    [] OTHER -> "returned"

StepAfter(step, is_major) ==
  CASE step = "evmserverd.stop" -> "drop"
    [] step = "drop" -> "create"
    [] step = "create" -> "restore"
    [] step = "restore" -> "fix_auth_key"
    [] step = "fix_auth_key" -> IF is_major THEN "migrate" ELSE "evmserverd.start"
    [] step = "migrate" -> "automate_reset"
    [] step = "automate_reset" -> "evmserverd.start"
    [] step = "evmserverd.start" -> "wait_for_miq_ready"
    [] step = "wait_for_miq_ready" -> "reset_user_pass"
    [] step = "reset_user_pass" -> "delattr rest_api"
    [] OTHER -> "returned"

\* the call enters `step`; the EVM service state at that moment is recorded
Began(d, step) ==
  [d EXCEPT !.steps = Append(@, [name |-> step, evm |-> d.evm])]

\* `step` returned normally
Returned(d, step) ==
  [Began(d, step) EXCEPT !.pc = StepAfter(step, d.is_major)]

\* `step` raised: nothing in restore_database catches it
Raised(d, step, exc) ==
  [Began(d, step) EXCEPT !.pc = "raised", !.exc = exc]

InitRestore ==
  /\ focus = "db"
  /\ version = V_2_0_0
  /\ coll = NewCollection(CollName, CollHref(CollName))
  /\ ent = NoEntity
  /\ hasEnt = FALSE
  /\ sr = <<>>
  /\ hasSr = FALSE
  /\ log = <<>>
  /\ ret = Ret("init", <<>>, Ok(JNull), <<>>)
  /\ db \in { NewAppliance(e, r) : e \in EvmStates, r \in BOOLEAN }
  /\ lvm = NewDisks(<<>>, TRUE, FALSE)

\* restore_database(db_path, is_major) is called
OpRestoreDatabase ==
  /\ focus = "db"
  /\ db.pc \in {"idle", "returned", "raised"}
  /\ \E p \in DbPaths, m \in BOOLEAN :
       db' = [db EXCEPT !.pc = "evmserverd.stop", !.db_path = p,
                        !.is_major = m, !.steps = <<>>, !.exc = "",
                        !.logged = FALSE]
  /\ UNCHANGED <<clientVars, lvm>>

\* self.appliance.evmserverd.stop()
OpEvmStop ==
  /\ focus = "db"
  /\ db.pc = "evmserverd.stop"
  /\ \/ db' = [Returned(db, "evmserverd.stop") EXCEPT !.evm = "stopped"]
     \/ db' = Raised(db, "evmserverd.stop", "Exception")
  /\ UNCHANGED <<clientVars, lvm>>

\* self.drop(): wait_for raises when the database is not seen dropped
OpDrop ==
  /\ focus = "db"
  /\ db.pc = "drop"
  /\ \/ db' = Returned(db, "drop")
     \/ db' = Raised(db, "drop", "TimedOutError")
  /\ UNCHANGED <<clientVars, lvm>>

\* self.create(): asserts that createdb succeeded
OpCreate ==
  /\ focus = "db"
  /\ db.pc = "create"
  /\ \/ db' = Returned(db, "create")
     \/ db' = Raised(db, "create", "AssertionError")
  /\ UNCHANGED <<clientVars, lvm>>

\* self.restore(database_path=db_path): a failing rake restore raises, a
\* failing fix_auth is only logged
OpRestore ==
  /\ focus = "db"
  /\ db.pc = "restore"
  /\ \/ db' = Returned(db, "restore")
     \/ db' = [Returned(db, "restore") EXCEPT !.logged = TRUE]
     \/ db' = Raised(db, "restore", "ApplianceException")
  /\ UNCHANGED <<clientVars, lvm>>

\* self.fix_auth_key()
OpFixAuthKey ==
  /\ focus = "db"
  /\ db.pc = "fix_auth_key"
  /\ \/ db' = Returned(db, "fix_auth_key")
     \/ db' = Raised(db, "fix_auth_key", "AssertionError")
  /\ UNCHANGED <<clientVars, lvm>>

\* self.migrate()
OpMigrate ==
  /\ focus = "db"
  /\ db.pc = "migrate"
  /\ \/ db' = Returned(db, "migrate")
     \/ db' = Raised(db, "migrate", "AssertionError")
  /\ UNCHANGED <<clientVars, lvm>>

\* self.automate_reset()
OpAutomateReset ==
  /\ focus = "db"
  /\ db.pc = "automate_reset"
  /\ \/ db' = Returned(db, "automate_reset")
     \/ db' = Raised(db, "automate_reset", "AssertionError")
  /\ UNCHANGED <<clientVars, lvm>>

\* self.appliance.evmserverd.start()
OpEvmStart ==
  /\ focus = "db"
  /\ db.pc = "evmserverd.start"
  /\ \/ db' = [Returned(db, "evmserverd.start") EXCEPT !.evm = "running"]
     \/ db' = Raised(db, "evmserverd.start", "Exception")
  /\ UNCHANGED <<clientVars, lvm>>

\* self.appliance.wait_for_miq_ready(num_sec=600)
OpWaitForMiqReady ==
  /\ focus = "db"
  /\ db.pc = "wait_for_miq_ready"
  /\ \/ db' = Returned(db, "wait_for_miq_ready")
     \/ db' = Raised(db, "wait_for_miq_ready", "TimedOutError")
  /\ UNCHANGED <<clientVars, lvm>>

\* self.reset_user_pass()
OpResetUserPass ==
  /\ focus = "db"
  /\ db.pc = "reset_user_pass"
  /\ \/ db' = Returned(db, "reset_user_pass")
     \/ db' = Raised(db, "reset_user_pass", "AssertionError")
  /\ UNCHANGED <<clientVars, lvm>>

\* delattr(self.appliance, "rest_api"): deleting an attribute the instance
\* does not hold raises AttributeError
OpDelattrRestApi ==
  /\ focus = "db"
  /\ db.pc = "delattr rest_api"
  /\ db' = IF db.rest_api
           THEN [Returned(db, "delattr rest_api") EXCEPT !.rest_api = FALSE]
           ELSE Raised(db, "delattr rest_api", "AttributeError")
  /\ UNCHANGED <<clientVars, lvm>>

NextRestore ==
  \/ OpRestoreDatabase \/ OpEvmStop \/ OpDrop \/ OpCreate \/ OpRestore
  \/ OpFixAuthKey \/ OpMigrate \/ OpAutomateReset \/ OpEvmStart
  \/ OpWaitForMiqReady \/ OpResetUserPass \/ OpDelattrRestApi

SpecRestore == InitRestore /\ [][NextRestore]_vars

(***************************************************************************)
(* ApplianceDB._find_disk_with_free_space, _create_partition_from_free_    *)
(* space and create_db_lvm.  Sizes are in tenths of a GB.                  *)
(***************************************************************************)
\* _run_cmd_show_output: the command that was run and what it was run on
Cmd(cmd, on) == [ cmd |-> cmd, on |-> on ]

\* the lines of a parted output that contain 'Free Space'
FreeSpaceLines(lines) == SelectSeq(lines, LAMBDA l : l.free)

\* the loop over free_space_lines of one disk: start, end and size are
\* assigned for every line with three numbers, the disk name only for a line
\* that is large enough
RECURSIVE ScanLines(_, _, _, _, _)
ScanLines(lines, i, disk, acc, needed_size) ==
  IF i > Len(lines)
  THEN acc
  ELSE LET gb_data == lines[i].gb IN
       IF Len(gb_data) # 3
       THEN ScanLines(lines, i + 1, disk, acc, needed_size)
       ELSE LET seen == [acc EXCEPT !.start = Some(gb_data[1]),
                                    !.end = Some(gb_data[2]),
                                    !.size = Some(gb_data[3])]
            IN IF gb_data[3] >= needed_size
               THEN [seen EXCEPT !.disk_name = Some(disk), !.found = TRUE]
               ELSE ScanLines(lines, i + 1, disk, seen, needed_size)

\* the loop over self.appliance.disks: a disk parted fails on is skipped
RECURSIVE ScanDisks(_, _, _, _)
ScanDisks(disks, i, acc, needed_size) ==
  IF i > Len(disks)
  THEN acc
  ELSE LET ran == [acc EXCEPT
                     !.cmds = Append(@, Cmd("parted print free", disks[i].name)),
                     !.found = FALSE]
       IN IF disks[i].failed
          THEN ScanDisks(disks, i + 1, ran, needed_size)
          ELSE LET a == ScanLines(FreeSpaceLines(disks[i].lines), 1,
                                  disks[i].name, ran, needed_size)
               IN IF a.found THEN a ELSE ScanDisks(disks, i + 1, a, needed_size)

\* ApplianceDB._find_disk_with_free_space(needed_size)
FindDiskWithFreeSpace(disks, needed_size) ==
  LET a == ScanDisks(disks, 1,
                     [ disk_name |-> None, start |-> None, end |-> None,
                       size |-> None, found |-> FALSE, cmds |-> <<>> ],
                     needed_size)
  IN [ val |-> << a.disk_name, a.start, a.end, a.size >>, cmds |-> a.cmds ]

\* ApplianceDB._create_partition_from_free_space(needed_size); the outcome of
\* mkpart and the number of new entries of disks_and_partitions are the
\* appliance's answers
CreatePartitionFromFreeSpace(disks, needed_size, mkpart_failed, ndiff) ==
  LET needed == needed_size + 5
      f == FindDiskWithFreeSpace(disks, needed)
      disk == f.val[1]
  IN IF disk = None
     THEN [ val |-> None, cmds |-> f.cmds, partitioned |-> FALSE ]
     ELSE LET start == f.val[2][1]
              size == f.val[4][1]
              end == IF size > needed THEN start + needed ELSE f.val[3][1]
              cmds == Append(f.cmds, Cmd("parted mkpart", disk[1]))
          IN IF mkpart_failed
             THEN [ val |-> None, cmds |-> cmds, partitioned |-> FALSE ]
             ELSE IF ndiff # 1
             THEN [ val |-> None, cmds |-> cmds, partitioned |-> TRUE ]
             ELSE [ val |-> Some([ disk |-> disk[1], start |-> start,
                                   end |-> end ]),
                    cmds |-> cmds, partitioned |-> TRUE ]

\* commands_to_run of create_db_lvm
CommandsToRun(partition, is_downstream, from_5_11) ==
  << Cmd("pvcreate", partition.disk),
     Cmd("vgcreate dbvg", partition.disk),
     Cmd("lvcreate", "dbvg"),
     Cmd("mkfs.xfs", "/dev/dbvg/dblv"),
     Cmd("echo fstab_line", "/etc/fstab"),
     Cmd("mount -a", "") >>
  \o (IF ~is_downstream \/ from_5_11
      THEN << Cmd("chown postgres:postgres", "$APPLIANCE_PG_MOUNT_POINT"),
              Cmd("chmod 700", "$APPLIANCE_PG_MOUNT_POINT") >>
      ELSE <<>>)

\* the loop without its early return
RunCommandsAll(commands, fail_at) ==
  [ ran |-> commands,
    failed_cmd |-> IF fail_at \in 1..Len(commands) THEN fail_at ELSE 0,
    val |-> TRUE ]

\* the loop over commands_to_run: the command at fail_at, if there is one,
\* fails and ends the loop
RunCommands(commands, fail_at) ==
  IF fail_at \in 1..Len(commands)
  THEN [ ran |-> SubSeq(commands, 1, fail_at), failed_cmd |-> fail_at,
         val |-> FALSE ]
  ELSE [ ran |-> commands, failed_cmd |-> 0, val |-> TRUE ]

\* ApplianceDB.create_db_lvm(size)
CreateDbLvm(disks, size, is_downstream, from_5_11, mkpart_failed, ndiff, fail_at) ==
  LET p == CreatePartitionFromFreeSpace(disks, size * 10, mkpart_failed, ndiff)
  IN IF p.val = None
     THEN [ val |-> FALSE, partition |-> None, cmds |-> p.cmds,
            partitioned |-> p.partitioned, failed_cmd |-> 0 ]
     ELSE LET r == RunCommands(CommandsToRun(p.val[1], is_downstream, from_5_11),
                               fail_at)
          IN [ val |-> r.val, partition |-> p.val, cmds |-> p.cmds \o r.ran,
               partitioned |-> TRUE,
               failed_cmd |-> IF r.failed_cmd = 0 THEN 0
                              ELSE Len(p.cmds) + r.failed_cmd ]

InitLvm ==
  /\ focus = "lvm"
  /\ version = V_2_0_0
  /\ coll = NewCollection(CollName, CollHref(CollName))
  /\ ent = NoEntity
  /\ hasEnt = FALSE
  /\ sr = <<>>
  /\ hasSr = FALSE
  /\ log = <<>>
  /\ ret = Ret("init", <<>>, Ok(JNull), <<>>)
  /\ db = NewAppliance("running", FALSE)
  /\ lvm \in { NewDisks(d, ds, v) : d \in DiskLists, ds \in BOOLEAN, v \in BOOLEAN }

\* self._find_disk_with_free_space(needed_size) is called
OpFindDiskWithFreeSpace ==
  /\ focus = "lvm"
  /\ ~lvm.partitioned
  /\ \E needed_size \in {55, 305} :
       \E r \in { FindDiskWithFreeSpace(lvm.disks, needed_size) } :
         lvm' = [lvm EXCEPT !.op = "_find_disk_with_free_space",
                            !.arg = needed_size, !.res = r.val,
                            !.partition = None, !.cmds = r.cmds,
                            !.failed_cmd = 0]
  /\ UNCHANGED <<clientVars, db>>

\* self._create_partition_from_free_space(needed_size) is called
OpCreatePartitionFromFreeSpace ==
  /\ focus = "lvm"
  /\ ~lvm.partitioned
  /\ \E needed_size \in {50, 300}, mkpart_failed \in BOOLEAN, ndiff \in 0..2 :
       \E r \in { CreatePartitionFromFreeSpace(lvm.disks, needed_size,
                                                mkpart_failed, ndiff) } :
         lvm' = [lvm EXCEPT !.op = "_create_partition_from_free_space",
                            !.arg = needed_size, !.res = r.val,
                            !.partition = r.val, !.cmds = r.cmds,
                            !.partitioned = r.partitioned, !.failed_cmd = 0]
  /\ UNCHANGED <<clientVars, db>>

\* self.create_db_lvm(size) is called
OpCreateDbLvm ==
  /\ focus = "lvm"
  /\ ~lvm.partitioned
  /\ \E size \in {5, 30}, mkpart_failed \in BOOLEAN, ndiff \in 0..2,
        fail_at \in 0..8 :
       \E r \in { CreateDbLvm(lvm.disks, size, lvm.is_downstream,
                               lvm.from_5_11, mkpart_failed, ndiff, fail_at) } :
         lvm' = [lvm EXCEPT !.op = "create_db_lvm", !.arg = size,
                            !.res = r.val, !.partition = r.partition,
                            !.cmds = r.cmds, !.partitioned = r.partitioned,
                            !.failed_cmd = r.failed_cmd]
  /\ UNCHANGED <<clientVars, db>>

NextLvm ==
  OpFindDiskWithFreeSpace \/ OpCreatePartitionFromFreeSpace \/ OpCreateDbLvm

SpecLvm == InitLvm /\ [][NextLvm]_vars

(***************************************************************************)
(* Properties.                                                             *)
(***************************************************************************)
IsErrorEnvelope(resp) ==
  resp.kind = "json" /\ resp.body.t = "dict" /\ "error" \in DOMAIN resp.body.d
NotJson(resp) == resp.kind = "text"
Rejected(resp) == IsErrorEnvelope(resp) \/ NotJson(resp)
OnlyWhitespace(t) == \A i \in 1..Len(t) : t[i] \in {" ", "\n", "\t", "\r"}

Pre == [nums |-> <<2, 0, 0>>, suffix |-> "-pre"]
FilterVersions == { [nums |-> <<1, 1>>, suffix |-> ""], [nums |-> <<2, 0, 0>>, suffix |-> ""] }
SqlfilterVersions == { [nums |-> <<1, 0>>, suffix |-> ""], [nums |-> <<1, 2>>, suffix |-> ""] }
OldIdVersions ==
  { [nums |-> <<1, 0>>, suffix |-> ""], [nums |-> <<1, 1>>, suffix |-> ""],
    [nums |-> <<1, 2>>, suffix |-> ""] }

C2_OneDialect ==
  (ret.op = "Collection.find_by" /\ version # Pre) =>
    /\ Len(log) = 1 /\ log[1].verb = "GET" /\ log[1].url = coll.href
    /\ version \in FilterVersions => DOMAIN log[1].data = {"filter[]"}
    /\ version \in SqlfilterVersions => DOMAIN log[1].data = {"sqlfilter"}
    /\ version \in FilterVersions \cup SqlfilterVersions
    /\ Rejected(log[1].resp) => ret.st = "APIException"

C2_Witness ==
  /\ ret.op = "Collection.find_by" /\ version = [nums |-> <<1, 2>>, suffix |-> ""]
  /\ Len(log) = 1 /\ IsErrorEnvelope(log[1].resp) /\ ret.st = "APIException"

\* C3: a response to API.get, API.post or API.delete that decodes to an
\* object with an `error` key raises a domain error naming the remote klass
\* and message and is never returned; an Action invocation passes the error
\* on to its caller unchanged.
C3_ErrorEnvelopeRaises ==
  (ret.op \in {"API.get", "API.post", "API.delete", "Action.call"} /\ Len(log) = 1
     /\ IsErrorEnvelope(log[1].resp)) =>
    /\ ret.st = "APIException"
    /\ ret.msg = << log[1].resp.body.d["error"].klass,
                    log[1].resp.body.d["error"].message >>
    /\ ret.val = JNull /\ ret.ents = <<>>

C3_Witness ==
  /\ ret.op = "Action.call" /\ Len(log) = 1 /\ log[1].verb = "DELETE"
  /\ ret.st = "APIException" /\ ret.msg[1] = "ActiveRecord::RecordNotFound"

\* C4: API.post and API.delete return null for an empty or whitespace-only
\* body and raise a decode error carrying the raw text for any other body
\* that is not JSON; API.get raises the decode error for every body that is
\* not JSON, the empty one included.
C4_EmptyBodyTolerance ==
  (ret.op \in {"API.get", "API.post", "API.delete"} /\ NotJson(log[1].resp)) =>
    LET text == log[1].resp.text IN
    IF ret.op # "API.get" /\ OnlyWhitespace(text)
    THEN ret.st = "ok" /\ ret.val = JNull
    ELSE ret.st = "APIException" /\ ret.msg = <<"JSONDecodeError", text>>

C4_Witness ==
  /\ ret.op = "API.post" /\ NotJson(log[1].resp) /\ log[1].resp.text = <<" ", "\n">>
  /\ ret.st = "ok"

\* a response that serves a document: a JSON object that is no error envelope
ServesDocument(resp) ==
  resp.kind = "json" /\ resp.body.t = "dict" /\ "error" \notin DOMAIN resp.body.d

\* a stub as Entity._load_data leaves it: an href and no snapshot
IsFreshStub(e) == ~e.loaded /\ e.data = <<>> /\ DOMAIN e.attrs = {}

\* C5, as claimed: a stub is built without any request and without a
\* snapshot; the first attribute access on it sends exactly one GET of its
\* href, and after it every field of the returned document is an attribute.
C5_AllFieldsPresent ==
  [][ /\ ret'.op = "API.get_entity" => (log' = <<>> /\ IsFreshStub(ent'))
      /\ (ret'.op = "Entity.getattr" /\ hasEnt /\ IsFreshStub(ent)) =>
           /\ Len(log') = 1 /\ log'[1].verb = "GET" /\ log'[1].url = ent.href
           /\ ServesDocument(log'[1].resp) =>
                DOMAIN log'[1].resp.body.d \subseteq DOMAIN ent'.attrs ]_vars

\* C5, amended: a stub is built without any request and without a snapshot,
\* addressed at {collection href}/{id}; the first attribute access on it
\* sends exactly one GET of its href, and after it every field of the
\* returned document other than `actions` is an attribute of the entity
\* (the `actions` array is moved to the entity's pending actions).
C5_AllFieldsButActions ==
  [][ /\ ret'.op = "API.get_entity" =>
           /\ log' = <<>> /\ IsFreshStub(ent')
           /\ ent'.href = <<"api", "vms">> \o ret'.arg
      /\ (ret'.op = "Entity.getattr" /\ hasEnt /\ IsFreshStub(ent)) =>
           /\ Len(log') = 1 /\ log'[1].verb = "GET" /\ log'[1].url = ent.href
           /\ ServesDocument(log'[1].resp) =>
                /\ (DOMAIN log'[1].resp.body.d) \ {"actions"} \subseteq DOMAIN ent'.attrs
                /\ "actions" \notin DOMAIN ent'.attrs
                /\ "actions" \in DOMAIN log'[1].resp.body.d =>
                     ent'.actions = log'[1].resp.body.d["actions"] ]_vars

C5_Witness ==
  /\ ret.op = "Entity.getattr" /\ ret.arg = "zone_id" /\ ret.st = "ok"
  /\ Len(log) = 1 /\ "actions" \in DOMAIN log[1].resp.body.d
  /\ ent.loaded /\ "actions" \notin DOMAIN ent.attrs /\ ent.actions # <<>>

\* C6: after Entity.reload on a document with a foreign-key field k of
\* COLLECTION_MAPPING, of value v, the entity has the attribute k = v and
\* the attribute k without its _id suffix, a stub Entity addressed at
\* {entry point}/{mapped collection}/{v}; the reload sent its one GET only.
C6_ForeignKeyStub ==
  (ret.op = "Entity.reload" /\ ret.st = "ok") =>
    /\ Len(log) = 1 /\ log[1].verb = "GET"
    /\ \A k \in (DOMAIN log[1].resp.body.d) \cap (DOMAIN COLLECTION_MAPPING) :
         LET v == log[1].resp.body.d[k] IN
         /\ k \in DOMAIN ent.attrs /\ ent.attrs[k] = v
         /\ StripIdSuffix[k] \in DOMAIN ent.attrs
         /\ IsFreshStub(ent.attrs[StripIdSuffix[k]])
         /\ ent.attrs[StripIdSuffix[k]].href = <<"api", COLLECTION_MAPPING[k]>> \o v
    /\ "zone_id" \in DOMAIN log[1].resp.body.d =>
         /\ "zone" \in DOMAIN ent.attrs
         /\ ent.attrs["zone"].href = <<"api", "zones">> \o log[1].resp.body.d["zone_id"]

C6_Witness ==
  /\ ret.op = "Entity.reload" /\ ret.st = "ok" /\ Len(log) = 1
  /\ "zone_id" \in DOMAIN log[1].resp.body.d
  /\ ent.attrs["zone_id"] = <<"2">>
  /\ ent.attrs["zone"].href = <<"api", "zones", "2">> /\ ~ent.attrs["zone"].loaded

\* C7: an Action called with n >= 1 positional arguments sends the body
\* {action, resources} with the n arguments in order, an Entity as its
\* {href} reference and anything else as it is, and no `resource` key even
\* with keyword arguments; called with keyword arguments only it sends
\* {action, resource: those keys} and no `resources` key.
C7_RequestBody ==
  (ret.op = "Action.call" /\ Len(log) = 1) =>
    LET body == log[1].data
        args == ret.arg.args
        kwargs == ret.arg.kwargs
    IN /\ body["action"] = ret.arg.name
       /\ Len(args) >= 1 =>
            /\ DOMAIN body = {"action", "resources"}
            /\ Len(body["resources"]) = Len(args)
            /\ \A i \in 1..Len(args) :
                 body["resources"][i] =
                   IF IsEntityArg(args[i]) THEN ("href" :> args[i].href) ELSE args[i]
       /\ (Len(args) = 0 /\ kwargs # <<>>) =>
            /\ DOMAIN body = {"action", "resource"}
            /\ body["resource"] = kwargs

C7_Witness ==
  /\ ret.op = "Action.call" /\ Len(log) = 1 /\ log[1].verb = "POST"
  /\ Len(ret.arg.args) = 2 /\ ret.arg.kwargs # <<>>
  /\ IsEntityArg(ret.arg.args[1]) /\ ~IsEntityArg(ret.arg.args[2])
  /\ log[1].data["resources"] = << ("href" :> <<"api", "vms", "1">>), ("name" :> "n") >>
  /\ "resource" \notin DOMAIN log[1].data

\* C8: every Entity.reload that succeeds leaves the entity's resolved
\* identity as it was, and the identity is the `id` of the document below
\* 2.0.0 and its `href` at 2.0.0, the server serving at an address the
\* document of that address.
C8_IdentityStable ==
  [][ (ret'.op = "Entity.reload" /\ ret'.st = "ok" /\ hasEnt) =>
        /\ ent'.href = ent.href
        /\ version \in OldIdVersions => ent'.href = log'[1].resp.body.d["id"]
        /\ version = [nums |-> <<2, 0, 0>>, suffix |-> ""] =>
             ent'.href = log'[1].resp.body.d["href"] ]_vars

C8_Witness ==
  /\ ret.op = "Entity.reload" /\ ret.st = "ok"
  /\ version = [nums |-> <<2, 0, 0>>, suffix |-> ""]
  /\ {"name", "zone_id"} \subseteq DOMAIN ent.attrs
  /\ ent.href = <<"api", "vms", "1">> /\ ent.attrs["id"] = <<"1">>

\* the names of a list of declared actions
DeclaredNames(actions) == { actions[i].name : i \in 1..Len(actions) }

\* C9, as claimed: the actions a container exposes are actions of the
\* owner's latest snapshot; none is left from an earlier snapshot.
C9_NoStaleAction ==
  /\ coll.hasActions => DOMAIN coll.ac \subseteq DeclaredNames(coll.actions)
  /\ (hasEnt /\ ent.hasActions) => DOMAIN ent.ac \subseteq DeclaredNames(ent.actions)

\* C10, as claimed: every operation sends at most one HTTP request.
C10_AtMostOne == Len(log) <= 1

\* C10, amended: the requests an operation sends are bounded per operation:
\* exactly one for API.get, API.post, API.delete, Collection.reload,
\* iteration over a Collection and Entity.reload; none for get_entity; at
\* most one for count, all, attribute access, container access,
\* SearchResult indexing and Action invocation; for find_by one, or up to
\* two on 2.0.0-pre; up to two for Collection indexing; for Collection.get
\* one more than for find_by; for iteration over a SearchResult at most one
\* per resource.
C10_RequestBounds ==
  /\ ret.op \in {"API.get", "API.post", "API.delete", "Collection.reload",
                 "Collection.iter", "Entity.reload"} => Len(log) = 1
  /\ ret.op \in {"init", "API.get_entity"} => Len(log) = 0
  /\ ret.op \in {"Collection.count", "Collection.all", "Entity.getattr",
                 "Collection.action.getattr", "Collection.action.all",
                 "Entity.action.getattr", "Entity.action.all",
                 "SearchResult.getitem", "Action.call"} => Len(log) <= 1
  /\ ret.op = "Collection.find_by" =>
       IF version = Pre THEN Len(log) \in {1, 2} ELSE Len(log) = 1
  /\ ret.op = "Collection.getitem" => Len(log) <= 2
  /\ ret.op = "Collection.get" =>
       IF version = Pre THEN Len(log) \in 1..3 ELSE Len(log) \in 1..2
  /\ ret.op = "SearchResult.iter" => Len(log) <= Len(sr.resources)
  /\ ret.op \in {"init", "API.get", "API.post", "API.delete", "API.get_entity",
                 "Collection.reload", "Collection.iter", "Entity.reload",
                 "Collection.count", "Collection.all", "Entity.getattr",
                 "Collection.action.getattr", "Collection.action.all",
                 "Entity.action.getattr", "Entity.action.all",
                 "SearchResult.getitem", "Action.call", "Collection.find_by",
                 "Collection.getitem", "Collection.get", "SearchResult.iter"}

C10_Witness ==
  /\ ret.op = "Collection.get" /\ version = Pre /\ Len(log) = 3 /\ ret.st = "ok"
  /\ log[1].verb = "GET" /\ log[2].verb = "GET" /\ log[3].url = ret.ents[1].href

\* C11, as claimed: a Collection that holds a cached snapshot holds one whose
\* server-reported name is the name the collection was constructed with; a
\* reload answered with another name leaves no snapshot cached.
C11_CachedNameMatches == coll.loaded => coll.dataName = coll.name

\* a fragment that carries neither `id` nor `href`
IsMalformed(data) == "id" \notin DOMAIN data /\ "href" \notin DOMAIN data
HasMalformed(frags) == \E i \in 1..Len(frags) : IsMalformed(frags[i])

\* the operations of a collection that hand entities to the caller
EntityYielding ==
  { "Collection.all", "Collection.iter", "Collection.find_by",
    "Collection.getitem", "Collection.get" }

\* C12: every Entity handed to the caller holds a snapshot with its identity
\* field or, as a stub, an href to fetch one from, never neither; building
\* entities from fragments of which one has neither `id` nor `href` raises
\* the malformed-data error, whatever the id behaviour of the version.
C12_SnapshotOrHref ==
  /\ ret.op \in EntityYielding =>
       \A i \in 1..Len(ret.ents) :
         LET e == ret.ents[i] IN
         IF e.loaded
         THEN (IF new_id_behaviour THEN "href" ELSE "id") \in DOMAIN e.data
              /\ e.href # <<>>
         ELSE e.href # <<>> /\ e.href[1] = "api"
  /\ (ret.op \in {"Collection.all", "Collection.iter"} /\ ret.st # "APIException"
        /\ coll.loaded /\ coll.dataName = coll.name /\ HasMalformed(coll.resources)) =>
       /\ ret.st = "ValueError" /\ ret.msg = <<"Malformed data">>
       /\ ret.op = "Collection.all" => ret.ents = <<>>

C12_Witness ==
  /\ ret.op = "Collection.iter" /\ version = [nums |-> <<2, 0, 0>>, suffix |-> ""]
  /\ Len(coll.resources) = 2 /\ ~IsMalformed(coll.resources[1])
  /\ IsMalformed(coll.resources[2])
  /\ ret.st = "ValueError" /\ ret.msg = <<"Malformed data">>

\* C13, as claimed: on 2.0.0-pre the second request of find_by follows only
\* an error envelope on the first one; a first answer that is not JSON makes
\* find_by raise the decode failure without a second request.
C13_DecodeFailurePropagates ==
  (ret.op = "Collection.find_by" /\ version = Pre) =>
    /\ Len(log) = 2 => IsErrorEnvelope(log[1].resp)
    /\ NotJson(log[1].resp) =>
         /\ Len(log) = 1
         /\ ret.st = "APIException"
         /\ ret.msg = <<"JSONDecodeError", log[1].resp.text>>

\* the body an accepted answer to a POST or DELETE decodes to: an empty or
\* whitespace-only text is taken as null
DecodedAnswer(resp) == IF resp.kind = "text" THEN JNull ELSE resp.body
HasResults(b) == b.t = "dict" /\ "results" \in DOMAIN b.d

\* C14, as claimed: an Action invocation returns nothing for a null answer;
\* for an answer with a `results` array it returns one stub Entity per
\* element, in order, at {collection href}/{id} for an element with an id and
\* at the element's href otherwise, and fetches none; any other answer is
\* returned as decoded.
C14_OneStubPerResult ==
  (ret.op = "Action.call" /\ Len(log) = 1 /\ ret.st # "APIException") =>
    LET b == DecodedAnswer(log[1].resp) IN
    IF b.t = "null" THEN ret.st = "ok" /\ ret.val = JNull /\ ret.ents = <<>>
    ELSE IF HasResults(b)
    THEN /\ ret.st = "ok"
         /\ Len(ret.ents) = Len(b.d["results"])
         /\ \A i \in 1..Len(ret.ents) :
              /\ IsFreshStub(ret.ents[i])
              /\ ret.ents[i].href =
                   IF "id" \in DOMAIN b.d["results"][i]
                   THEN coll.href \o b.d["results"][i]["id"]
                   ELSE b.d["results"][i]["href"]
    ELSE ret.st = "ok" /\ ret.val = b /\ ret.ents = <<>>

\* C14, amended: as claimed when every element of the `results` array has an
\* `id` or an `href`; when one element has neither, the invocation raises
\* the unimplemented error and returns no entity.
C14_OneStubPerAddressedResult ==
  (ret.op = "Action.call" /\ Len(log) = 1 /\ ret.st # "APIException") =>
    LET b == DecodedAnswer(log[1].resp) IN
    IF b.t = "null" THEN ret.st = "ok" /\ ret.val = JNull /\ ret.ents = <<>>
    ELSE IF HasResults(b) /\ HasMalformed(b.d["results"])
    THEN ret.st = "NotImplementedError" /\ ret.ents = <<>>
    ELSE IF HasResults(b)
    THEN /\ ret.st = "ok"
         /\ Len(ret.ents) = Len(b.d["results"])
         /\ \A i \in 1..Len(ret.ents) :
              /\ IsFreshStub(ret.ents[i])
              /\ ret.ents[i].href =
                   IF "id" \in DOMAIN b.d["results"][i]
                   THEN coll.href \o b.d["results"][i]["id"]
                   ELSE b.d["results"][i]["href"]
    ELSE ret.st = "ok" /\ ret.val = b /\ ret.ents = <<>>

C14_Witness ==
  /\ ret.op = "Action.call" /\ Len(log) = 1 /\ ret.st = "ok"
  /\ HasResults(log[1].resp.body) /\ Len(ret.ents) = 2
  /\ ret.ents[1].href = <<"api", "vms", "1">> /\ ~ret.ents[1].loaded
  /\ ret.ents[2].href = <<"api", "services", "1">> /\ ~ret.ents[2].loaded

\* C15: an Action declared with method post sends exactly one POST to its
\* href and one declared with method delete exactly one DELETE; with any
\* other declared method the invocation raises the unimplemented error and
\* sends nothing.
C15_DispatchByMethod ==
  ret.op = "Action.call" =>
    LET a == coll.ac[ret.arg.name] IN
    IF a.method = "post"
    THEN Len(log) = 1 /\ log[1].verb = "POST" /\ log[1].url = a.href
    ELSE IF a.method = "delete"
    THEN Len(log) = 1 /\ log[1].verb = "DELETE" /\ log[1].url = a.href
    ELSE ret.st = "NotImplementedError" /\ ret.ents = <<>> /\ log = <<>>

C15_Witness ==
  /\ ret.op = "Action.call" /\ ret.arg.name = "query"
  /\ coll.ac["query"].method = "get"
  /\ ret.st = "NotImplementedError" /\ log = <<>>

\* the attribute names Entity.reload sets for the document d
AttributesOf(d) ==
  ((DOMAIN d) \ {"actions"})
  \cup { StripIdSuffix[k] : k \in (DOMAIN d) \cap (DOMAIN COLLECTION_MAPPING) }

\* C16: reading an attribute that the document of the entity does not supply
\* ends in the no-such-attribute error: on a stub after exactly one GET of
\* its href, the lookup being retried on the reloaded entity; on an entity
\* that holds a snapshot without any request and without any change.
C16_NoSuchAttribute ==
  [][ (ret'.op = "Entity.getattr" /\ hasEnt) =>
        /\ (IsFreshStub(ent) /\ Len(log') = 1 /\ ServesDocument(log'[1].resp)
              /\ ret'.arg \notin AttributesOf(log'[1].resp.body.d)) =>
             /\ log'[1].verb = "GET" /\ log'[1].url = ent.href
             /\ ent'.loaded
             /\ ret'.st = "AttributeError" /\ ret'.msg = <<ret'.arg>>
        /\ IsFreshStub(ent) => Len(log') = 1
        /\ (ent.loaded /\ ret'.arg \notin DOMAIN ent.attrs) =>
             /\ log' = <<>> /\ ent' = ent
             /\ ret'.st = "AttributeError" /\ ret'.msg = <<ret'.arg>> ]_vars

C16_Witness ==
  /\ ret.op = "Entity.getattr" /\ ret.arg = "nosuch"
  /\ Len(log) = 1 /\ ServesDocument(log[1].resp) /\ ent.loaded
  /\ "nosuch" \notin DOMAIN ent.attrs
  /\ ret.st = "AttributeError"

\* C17: get_entity returns a stub Entity at {entry point}/{name}/{id}, the
\* href of the collection followed by the id, and sends nothing; the GET of
\* that address is sent by the first attribute access on the stub.
C17_GetEntityDefers ==
  [][ /\ ret'.op = "API.get_entity" =>
           /\ log' = <<>>
           /\ hasEnt' /\ IsFreshStub(ent') /\ ret'.ents = << ent' >>
           /\ ent'.href = <<"api", "vms">> \o ret'.arg
           /\ ent'.href = coll.href \o ret'.arg
      /\ (ret.op = "API.get_entity" /\ ret'.op = "Entity.getattr") =>
           /\ Len(log') = 1 /\ log'[1].verb = "GET"
           /\ log'[1].url = <<"api", "vms">> \o ret.arg ]_vars

C17_Witness ==
  /\ ret.op = "API.get_entity" /\ ret.arg = <<"2">> /\ log = <<>>
  /\ hasEnt /\ ~ent.loaded /\ ent.href = <<"api", "vms", "2">>

\* the cached snapshot of a collection
Snapshot(c) ==
  [ loaded |-> c.loaded, name |-> c.dataName, resources |-> c.resources,
    count |-> c.count, subcount |-> c.subcount, actions |-> c.actions ]

\* the snapshot is the document of the answer resp
StoresAnswer(c, resp) ==
  /\ c.loaded
  /\ c.resources = resp.body.d["resources"]
  /\ c.count = resp.body.d["count"]
  /\ c.subcount = resp.body.d["subcount"]
  /\ c.actions = IF "actions" \in DOMAIN resp.body.d THEN resp.body.d["actions"] ELSE <<>>

\* the operations that fetch the snapshot when none is cached
LazyFetching == { "Collection.count", "Collection.all", "Collection.getitem" }

IsEntityOf(e, frag) ==
  IF "id" \in DOMAIN frag
  THEN e.loaded /\ e.data = frag
  ELSE ~e.loaded /\ e.href = frag["href"]

\* C19: iterating a Collection sends one GET with expand=resources whether
\* or not a snapshot is cached and, run to its end, yields one Entity per
\* fragment of that answer, in order; Collection.all sends a GET, without
\* expand, only when no snapshot is cached, and builds its entities from the
\* cached fragments otherwise.
C19_IterationReloads ==
  [][ /\ ret'.op = "Collection.iter" =>
           /\ Len(log') = 1 /\ log'[1].verb = "GET" /\ log'[1].url = coll.href
           /\ DOMAIN log'[1].data = {"expand"} /\ log'[1].data["expand"] = "resources"
           /\ ret'.st = "ok" =>
                /\ Len(ret'.ents) = Len(log'[1].resp.body.d["resources"])
                /\ \A i \in 1..Len(ret'.ents) :
                     IsEntityOf(ret'.ents[i], log'[1].resp.body.d["resources"][i])
      /\ ret'.op = "Collection.all" =>
           IF coll.loaded
           THEN /\ log' = <<>> /\ coll' = coll
                /\ ret'.st = "ok" =>
                     /\ Len(ret'.ents) = Len(coll.resources)
                     /\ \A i \in 1..Len(ret'.ents) :
                          IsEntityOf(ret'.ents[i], coll.resources[i])
           ELSE /\ Len(log') = 1 /\ log'[1].verb = "GET" /\ log'[1].url = coll.href
                /\ DOMAIN log'[1].data = {} ]_vars

C19_Witness ==
  /\ ret.op = "Collection.iter" /\ ret.st = "ok" /\ Len(log) = 1
  /\ log[1].data["expand"] = "resources"
  /\ Len(ret.ents) = 2 /\ ret.ents[1].loaded /\ ret.ents[2].loaded
  /\ ret.ents[2].attrs["name"] = "a"

(***************************************************************************)
(* restore_database                                                        *)
(***************************************************************************)
\* the order of the statements of restore_database for a given is_major
RestoreOrder(is_major) ==
  <<"evmserverd.stop", "drop", "create", "restore", "fix_auth_key">>
  \o (IF is_major THEN <<"migrate", "automate_reset">> ELSE <<>>)
  \o <<"evmserverd.start", "wait_for_miq_ready", "reset_user_pass",
       "delattr rest_api">>

\* the steps begun so far are the first steps of `order`, in that order
IsPrefixOfOrder(steps, order) ==
  /\ Len(steps) <= Len(order)
  /\ \A i \in 1..Len(steps) : steps[i].name = order[i]

\* the positions of `name` among the steps begun so far
PositionsOf(steps, name) == { i \in 1..Len(steps) : steps[i].name = name }

\* C20: the steps of restore_database run in the fixed order stop, drop,
\* create, restore, fix_auth_key, (migrate, automate_reset iff is_major),
\* start, wait_for_miq_ready, reset_user_pass, clearing of rest_api: the
\* steps begun so far are always a prefix of that order, a call that returned
\* has run all of them, and drop and create run only after the stop returned
\* and before the start, with the EVM service stopped.
C20_FixedOrder ==
  focus = "db" =>
    /\ IsPrefixOfOrder(db.steps, RestoreOrder(db.is_major))
    /\ db.pc = "returned" =>
         Len(db.steps) = Len(RestoreOrder(db.is_major))
    /\ \A i \in 1..Len(db.steps) :
         db.steps[i].name \in {"drop", "create"} =>
           /\ db.steps[i].evm = "stopped"
           /\ \E j \in 1..(i - 1) : db.steps[j].name = "evmserverd.stop"
           /\ \A j \in 1..i : db.steps[j].name # "evmserverd.start"

\* C20 witness: a call with is_major that returned after all eleven steps,
\* and so ran migrate and automate_reset between fix_auth_key and the start
C20_Witness ==
  /\ focus = "db"
  /\ db.pc = "returned"
  /\ db.is_major
  /\ Len(db.steps) = 11
  /\ PositionsOf(db.steps, "drop") = {2}
  /\ PositionsOf(db.steps, "migrate") = {6}
  /\ PositionsOf(db.steps, "evmserverd.start") = {8}

(***************************************************************************)
(* _find_disk_with_free_space                                              *)
(***************************************************************************)
\* the free-space regions parted shows: disk i answered, and its j-th line
\* is a 'Free Space' line with start, end and size
Regions(disks) ==
  { p \in (1..Len(disks)) \X (1..3) :
      /\ ~disks[p[1]].failed
      /\ p[2] <= Len(disks[p[1]].lines)
      /\ disks[p[1]].lines[p[2]].free
      /\ Len(disks[p[1]].lines[p[2]].gb) = 3 }

\* the regions of at least needed_size
EnoughRegions(disks, needed_size) ==
  { p \in Regions(disks) : disks[p[1]].lines[p[2]].gb[3] >= needed_size }

\* p comes before q in disk order, and in line order on one disk
Before(p, q) == p[1] < q[1] \/ (p[1] = q[1] /\ p[2] <= q[2])

\* name, start, end and size of the first region of at least needed_size
FirstEnough(disks, needed_size) ==
  LET p == CHOOSE p \in EnoughRegions(disks, needed_size) :
             \A q \in EnoughRegions(disks, needed_size) : Before(p, q)
      gb == disks[p[1]].lines[p[2]].gb
  IN << Some(disks[p[1]].name), Some(gb[1]), Some(gb[2]), Some(gb[3]) >>

\* C21: _find_disk_with_free_space(needed_size) returns (None, None, None,
\* None) whenever no disk has a free-space region of at least needed_size,
\* and otherwise the name, start, end and size of the first such region in
\* disk order.
C21_NonesOrFirstRegion ==
  (focus = "lvm" /\ lvm.op = "_find_disk_with_free_space") =>
    IF EnoughRegions(lvm.disks, lvm.arg) = {}
    THEN lvm.res = << None, None, None, None >>
    ELSE lvm.res = FirstEnough(lvm.disks, lvm.arg)

(***************************************************************************)
(* create_db_lvm                                                           *)
(***************************************************************************)
\* the commands of commands_to_run among the commands a call ran
SetupCmds(cmds) ==
  SelectSeq(cmds, LAMBDA c : c.cmd \notin {"parted print free", "parted mkpart"})

\* the commands create_db_lvm would run on the partition it obtained
ExpectedSetup == CommandsToRun(lvm.partition[1], lvm.is_downstream, lvm.from_5_11)

\* C22 as stated: create_db_lvm returns True if and only if the partition was
\* created and every setup command succeeded; it returns False, having run no
\* command, when no partition could be created, or at the first command that
\* fails, and no command runs after a failed one.
C22_TrueIffCreatedAndAllSucceeded ==
  (focus = "lvm" /\ lvm.op = "create_db_lvm") =>
    /\ (lvm.res = TRUE) <=> (lvm.partitioned /\ lvm.failed_cmd = 0)
    /\ ~lvm.partitioned => (lvm.res = FALSE /\ lvm.cmds = <<>>)
    /\ lvm.failed_cmd # 0 => (lvm.res = FALSE /\ Len(lvm.cmds) = lvm.failed_cmd)

\* C22 amended: create_db_lvm returns True if and only if
\* _create_partition_from_free_space returned the name of the new partition
\* and every command of commands_to_run ran and succeeded; it returns False,
\* having run no command of commands_to_run, when no partition name was
\* obtained (also when mkpart succeeded but the new name could not be
\* determined), or at the first command of commands_to_run that fails, which
\* is then the last command run.
C22_TrueIffNamedAndAllSucceeded ==
  (focus = "lvm" /\ lvm.op = "create_db_lvm") =>
    /\ (lvm.res = TRUE) <=> (lvm.partition # None /\ lvm.failed_cmd = 0)
    /\ lvm.partition = None =>
         (lvm.res = FALSE /\ SetupCmds(lvm.cmds) = <<>> /\ lvm.failed_cmd = 0)
    /\ (lvm.partition # None /\ lvm.failed_cmd = 0) =>
         SetupCmds(lvm.cmds) = ExpectedSetup
    /\ lvm.failed_cmd # 0 =>
         /\ lvm.res = FALSE
         /\ lvm.partition # None
         /\ Len(lvm.cmds) = lvm.failed_cmd
         /\ Len(SetupCmds(lvm.cmds)) \in 1..Len(ExpectedSetup)
         /\ SetupCmds(lvm.cmds) =
              SubSeq(ExpectedSetup, 1, Len(SetupCmds(lvm.cmds)))

\* C22 witness: a call whose third setup command failed, with five commands
\* of commands_to_run left unrun
C22_Witness ==
  /\ focus = "lvm"
  /\ lvm.op = "create_db_lvm"
  /\ lvm.res = FALSE
  /\ lvm.partition # None
  /\ lvm.failed_cmd # 0
  /\ Len(SetupCmds(lvm.cmds)) = 3
  /\ Len(ExpectedSetup) = 8

\* C23: Collection.find_by and Collection.get leave the collection's cached
\* snapshot as it was, whether they succeed or fail: resources, count,
\* subcount and actions, or the absence of a snapshot, and the rest of the
\* collection object with them, are the same after the call as before it.
C23_SearchKeepsSnapshot ==
  [][ ret'.op \in {"Collection.find_by", "Collection.get"} =>
        /\ Snapshot(coll') = Snapshot(coll)
        /\ coll' = coll ]_vars

\* C23 witness: a find_by that succeeded on a collection with a cached
\* snapshot and returned another number of entities than the snapshot lists
C23_Witness ==
  /\ focus = "collection"
  /\ ret.op = "Collection.find_by"
  /\ ret.st = "ok"
  /\ coll.loaded
  /\ Len(coll.resources) = 2
  /\ Len(ret.ents) = 1
  /\ Len(log) = 1

\* C24: after Entity.reload the attributes of the entity are exactly those of
\* the latest fetched document (its fields other than `actions`, and the
\* de-suffixed names of its foreign keys): a field of an earlier snapshot
\* that the latest document lacks is no longer readable on the entity.
C24_AttributesOfLatestDocument ==
  (hasEnt /\ ret.op = "Entity.reload" /\ ret.st = "ok"
     /\ Len(log) = 1 /\ ServesDocument(log[1].resp)) =>
    DOMAIN ent.attrs = AttributesOf(log[1].resp.body.d)

\* the steps of restore_database between the stop and the start of evmserverd
BetweenStopAndStart ==
  {"drop", "create", "restore", "fix_auth_key", "migrate", "automate_reset"}

\* C25: a call of restore_database that stopped evmserverd starts it again:
\* when a step between the stop and the start fails, the call ends with the
\* EVM service started.
C25_FailureLeavesEvmStarted ==
  (focus = "db" /\ db.pc = "raised" /\ db.steps # <<>>
     /\ db.steps[Len(db.steps)].name \in BetweenStopAndStart) =>
    db.evm = "running"

=============================================================================
